---- MODULE Spec2Model ----
(***************************************************************************)
(* Model of the ssmd-mcp query layer (ssmd_mcp/gcs.py, tools.py, api.py):  *)
(* the credential cache, the engine session set-up, the path builder, the  *)
(* query dispatcher with its local-file fallback, the public query         *)
(* operations, and the REST client with its market cache.                  *)
(*                                                                         *)
(* External collaborators (the engine, gsutil, gcloud, the HTTP API) are   *)
(* nondeterministic: every action draws their outcomes with \E.            *)
(***************************************************************************)
EXTENDS Integers, Sequences, FiniteSets, TLC

VARIABLES
    api_url,          \* cfg.api_url, fixed for the process
    remote,           \* bucket: object key -> content version
    changes,          \* number of remote overwrites so far
    tmpfiles,         \* local cache directory: path -> content <<gs url, version>>
    dlOk,             \* local path -> number of completed downloads to it
    last,             \* what the last call of a public operation did
    gcs_token,        \* gcs._gcs_token   ("" = None)
    gcs_token_time,   \* gcs._gcs_token_time (NoTime = None)
    now,              \* the clock, seconds since the midnight Today begins with
    fetched,          \* history: when the helper last handed out a token
    clast,            \* what the last credential resolution or set-up did
    market_cache,     \* api._market_cache: cache key -> market record
    answered,         \* history: <<feed, id>> -> the record the API first answered it with
    apilast,          \* what the last call of an API-client entry point did
    pure,             \* what the last application of a pure function computed
    reqs,             \* the requests under way: each one's position and answer
    disk,             \* the cache file the requests share, and the copies made
    sessions          \* the engine sessions opened so far, in the order of duckdb.connect()

qvars == <<remote, changes, tmpfiles, dlOk, last>>
cvars == <<gcs_token, gcs_token_time, now, fetched, clast>>
avars == <<market_cache, answered, apilast>>
rvars == <<reqs, disk, sessions>>
vars == <<api_url, qvars, cvars, avars, pure, rvars>>

----------------------------------------------------------------------------
(* Bounds of the model *)

MaxVer == 2              \* content versions a remote object goes through
MaxRemoteChanges == 1    \* remote overwrites in one behaviour
StartClock == 50400      \* the clock at Init: 14:00
ClockStep == 900         \* seconds one Tick advances the clock
MaxTicks == 3            \* Ticks in one behaviour
MaxIds == 2              \* ids in one lookup
MaxMarkets == 2          \* market records in one API answer
MaxPieces == 3           \* pieces in one SQL text
MaxRequests == 2         \* requests under way at once
MaxFiles == 2            \* objects in a listed partition
MaxRows == 3             \* rows in the files a query reads
MaxSessions == 3         \* engine sessions opened by the requests

(* Program constants *)

TokenMaxAge == 1800      \* gcs.py: "if age < 1800"
NoTime == -1             \* _gcs_token_time = None

----------------------------------------------------------------------------
(* Strings, as Python computes on them *)

StartsWith(s, p) == Len(s) >= Len(p) /\ SubSeq(s, 1, Len(p)) = p

EndsWith(s, p) == Len(s) >= Len(p) /\ SubSeq(s, Len(s) - Len(p) + 1, Len(s)) = p

Contains(s, p) == \E i \in 1..(Len(s) - Len(p) + 1) : SubSeq(s, i, i + Len(p) - 1) = p

Tail_(s, n) == IF n >= Len(s) THEN "" ELSE SubSeq(s, n + 1, Len(s))

\* s.rstrip(c)
RStrip(s, c) ==
    LET I == {i \in 1..Len(s) : SubSeq(s, i, i) # c}
    IN  IF I = {} THEN "" ELSE SubSeq(s, 1, CHOOSE i \in I : \A j \in I : j <= i)

\* s.rstrip("/").split("/")[-1]
LastSegment(s) ==
    LET t == RStrip(s, "/")
        I == {i \in 1..Len(t) : SubSeq(t, i, i) = "/"}
        k == IF I = {} THEN 0 ELSE CHOOSE i \in I : \A j \in I : j <= i
    IN  Tail_(t, k)

\* the first n characters of s
Left(s, n) == IF n <= 0 THEN "" ELSE SubSeq(s, 1, n)

\* s.replace(old, new): every non-overlapping occurrence, left to right
RECURSIVE Replace(_, _, _)
Replace(s, old, new) ==
    LET P == {i \in 1..(Len(s) - Len(old) + 1) : SubSeq(s, i, i + Len(old) - 1) = old}
        p == CHOOSE i \in P : \A j \in P : i <= j
    IN  IF P = {} THEN s
        ELSE Left(s, p - 1) \o new \o Replace(Tail_(s, p + Len(old) - 1), old, new)

\* every character of s is one of chars
AllIn(s, chars) == \A i \in 1..Len(s) : Contains(chars, SubSeq(s, i, i))

\* s.rstrip(chars)
RStripChars(s, chars) ==
    LET I == {i \in 1..Len(s) : ~Contains(chars, SubSeq(s, i, i))}
    IN  IF I = {} THEN "" ELSE SubSeq(s, 1, CHOOSE i \in I : \A j \in I : j <= i)

\* s with the characters of chars removed at both ends
StripChars(s, chars) ==
    LET I == {i \in 1..Len(s) : ~Contains(chars, SubSeq(s, i, i))}
    IN  IF I = {} THEN ""
        ELSE SubSeq(s, CHOOSE i \in I : \A j \in I : i <= j,
                       CHOOSE i \in I : \A j \in I : j <= i)

LowerChars == "abcdefghijklmnopqrstuvwxyz"
UpperChars == "ABCDEFGHIJKLMNOPQRSTUVWXYZ"
Digits == "0123456789"

\* c.upper() of one character
UpperChar(c) ==
    LET K == {k \in 1..Len(LowerChars) : SubSeq(LowerChars, k, k) = c}
    IN  IF K = {} THEN c ELSE LET k == CHOOSE x \in K : TRUE IN SubSeq(UpperChars, k, k)

\* p in s.upper()
InUpper(p, s) ==
    \E i \in 1..(Len(s) - Len(p) + 1) :
        \A k \in 1..Len(p) : UpperChar(SubSeq(s, i + k - 1, i + k - 1)) = SubSeq(p, k, k)

\* the characters in code-point order, for the comparison of strings
CodeOrder == "-./0123456789:ABCDEFGHIJKLMNOPQRSTUVWXYZ_abcdefghijklmnopqrstuvwxyz"
Code(c) == CHOOSE k \in 1..Len(CodeOrder) : SubSeq(CodeOrder, k, k) = c

\* a < b on str
StrLess(a, b) ==
    \E k \in 1..Len(b) :
        /\ k <= Len(a) + 1
        /\ Left(a, k - 1) = Left(b, k - 1)
        /\ (k = Len(a) + 1 \/ Code(SubSeq(a, k, k)) < Code(SubSeq(b, k, k)))

\* s.isdigit()
IsDigit(s) == s # "" /\ AllIn(s, Digits)

\* int(s) of a string of one to four digits
ToInt(s) ==
    LET d(k) == (CHOOSE x \in 1..10 : SubSeq(Digits, x, x) = SubSeq(s, k, k)) - 1
        n == Len(s)
    IN  (IF n >= 1 THEN d(n) ELSE 0) + (IF n >= 2 THEN 10 * d(n - 1) ELSE 0)
        + (IF n >= 3 THEN 100 * d(n - 2) ELSE 0) + (IF n >= 4 THEN 1000 * d(n - 3) ELSE 0)

----------------------------------------------------------------------------
(* config.py: Config *)

gcs_bucket == "ssmd-data"

\* the keys of cfg.feed_paths, in dict order
FeedKeys == <<"kalshi", "kraken-futures", "polymarket">>

KnownFeeds == {FeedKeys[i] : i \in 1..Len(FeedKeys)}

\* a prefix table read with .get(feed): a missing feed formats as "None"
feed_paths_get_none(feed) ==
    CASE feed = "kalshi"         -> "kalshi/kalshi/crypto"
      [] feed = "kraken-futures" -> "kraken-futures/kraken-futures/futures"
      [] feed = "polymarket"     -> "polymarket/polymarket/markets"
      [] OTHER                   -> "None"

\* cfg.feed_paths.get(feed, feed)
feed_paths_get(feed) ==
    CASE feed = "kalshi"         -> "kalshi/kalshi/crypto"
      [] feed = "kraken-futures" -> "kraken-futures/kraken-futures/futures"
      [] feed = "polymarket"     -> "polymarket/polymarket/markets"
      [] OTHER                   -> feed

\* cfg.feed_types.get(feed, [])
feed_types_get(feed) ==
    CASE feed = "kalshi"         -> <<"trade", "ticker">>
      [] feed = "kraken-futures" -> <<"trade", "ticker">>
      [] feed = "polymarket"     -> <<"best_bid_ask", "last_trade_price", "price_change", "book">>
      [] OTHER                   -> << >>

\* cfg.price_type[feed]
price_type(feed) == IF feed = "polymarket" THEN "best_bid_ask" ELSE "ticker"

----------------------------------------------------------------------------
(* gcs.py: the path builder *)

None == ""     \* an omitted optional string argument (None, falsy like "")

\* a path builder that always builds the glob
gcs_parquet_path_glob_only(feed, date_str, file_type, hour) ==
    "s3://" \o gcs_bucket \o "/" \o feed_paths_get(feed) \o "/" \o date_str \o "/"
        \o file_type \o "_*.parquet"

gcs_parquet_path(feed, date_str, file_type, hour) ==
    LET prefix == feed_paths_get(feed)
    IN  IF hour # None
        THEN "s3://" \o gcs_bucket \o "/" \o prefix \o "/" \o date_str \o "/"
                 \o file_type \o "_" \o hour \o ".parquet"
        ELSE "s3://" \o gcs_bucket \o "/" \o prefix \o "/" \o date_str \o "/"
                 \o file_type \o "_*.parquet"

gcs_gs_path(feed, date_str) ==
    LET prefix == feed_paths_get(feed)
    IN  IF date_str # None
        THEN "gs://" \o gcs_bucket \o "/" \o prefix \o "/" \o date_str \o "/"
        ELSE "gs://" \o gcs_bucket \o "/" \o prefix \o "/"

\* a cache name that leaves the date out
LocalPath_undated(feed, date_str, fname) ==
    "/tmp/" \o "ssmd_" \o feed \o "_" \o fname

\* os.path.join(tempfile.gettempdir(), f"ssmd_{feed}_{date_str}_{fname}")
LocalPath(feed, date_str, fname) ==
    "/tmp/" \o "ssmd_" \o feed \o "_" \o date_str \o "_" \o fname

----------------------------------------------------------------------------
(* The bucket the model runs against *)

Today == "2025-01-15"

\* object keys, in the order gsutil ls prints them
BucketKeys == <<
    "kalshi/kalshi/crypto/2025-01-15/ticker_1400.parquet",
    "kalshi/kalshi/crypto/2025-01-15/trade_1400.parquet",
    "kalshi/kalshi/crypto/2025-01-15/trade_1500.parquet",
    "polymarket/polymarket/markets/2025-01-15/best_bid_ask_1400.parquet" >>

KeySet == {BucketKeys[i] : i \in 1..Len(BucketKeys)}

GsUrl(key) == "gs://" \o gcs_bucket \o "/" \o key
S3Url(key) == "s3://" \o gcs_bucket \o "/" \o key

GsUrls == {GsUrl(k) : k \in KeySet}
KeyOfGs == [u \in GsUrls |-> CHOOSE k \in KeySet : GsUrl(k) = u]

\* the content version behind a gs:// url (0: no such object)
RemoteVer(rem, url) == IF url \in GsUrls THEN rem[KeyOfGs[url]] ELSE 0

\* what a file holds: the object it is a copy of, and at which version
Content(rem, url) == <<url, RemoteVer(rem, url)>>

----------------------------------------------------------------------------
(* gcs.py: the credential resolver *)

FreshToken == "ya29.token"

\* what the gcloud helper run does: prints a token and exits 0; exits non-zero;
\* exits 0 printing nothing; is not installed; exceeds its 10 s timeout
HelperOutcomes == {"token", "nonzero", "empty", "missing", "timeout"}

\* a resolver whose cached token is still served at exactly 1800 s of age
get_gcs_token_inclusive(tok, ttime, clock, helper) ==
    IF tok # "" /\ ttime # NoTime /\ clock - ttime <= TokenMaxAge
    THEN [ret |-> tok, tok |-> tok, time |-> ttime, invoked |-> FALSE]
    ELSE IF helper = "token"
         THEN [ret |-> FreshToken, tok |-> FreshToken, time |-> clock, invoked |-> TRUE]
         ELSE [ret |-> "", tok |-> tok, time |-> ttime, invoked |-> TRUE]

\* a resolver that forgets the cached token when the helper fails
get_gcs_token_forgetful(tok, ttime, clock, helper) ==
    IF tok # "" /\ ttime # NoTime /\ clock - ttime < TokenMaxAge
    THEN [ret |-> tok, tok |-> tok, time |-> ttime, invoked |-> FALSE]
    ELSE IF helper = "token"
         THEN [ret |-> FreshToken, tok |-> FreshToken, time |-> clock, invoked |-> TRUE]
         ELSE [ret |-> "", tok |-> "", time |-> NoTime, invoked |-> TRUE]

\* a resolver that stores the token it is given without the time
get_gcs_token_untimed(tok, ttime, clock, helper) ==
    IF tok # "" /\ ttime # NoTime /\ clock - ttime < TokenMaxAge
    THEN [ret |-> tok, tok |-> tok, time |-> ttime, invoked |-> FALSE]
    ELSE IF helper = "token"
         THEN [ret |-> FreshToken, tok |-> FreshToken, time |-> ttime, invoked |-> TRUE]
         ELSE [ret |-> "", tok |-> tok, time |-> ttime, invoked |-> TRUE]

\* a resolver that hands out the expired token when the helper fails
get_gcs_token_expired_fallback(tok, ttime, clock, helper) ==
    IF tok # "" /\ ttime # NoTime /\ clock - ttime < TokenMaxAge
    THEN [ret |-> tok, tok |-> tok, time |-> ttime, invoked |-> FALSE]
    ELSE IF helper = "token"
         THEN [ret |-> FreshToken, tok |-> FreshToken, time |-> clock, invoked |-> TRUE]
         ELSE [ret |-> tok, tok |-> tok, time |-> ttime, invoked |-> TRUE]

\* _get_gcs_token(): ret is the value returned ("" = None), tok and time the cache
\* afterwards, invoked whether the helper was run
get_gcs_token(tok, ttime, clock, helper) ==
    IF tok # "" /\ ttime # NoTime /\ clock - ttime < TokenMaxAge
    THEN [ret |-> tok, tok |-> tok, time |-> ttime, invoked |-> FALSE]
    ELSE IF helper = "token"
         THEN [ret |-> FreshToken, tok |-> FreshToken, time |-> clock, invoked |-> TRUE]
         ELSE [ret |-> "", tok |-> tok, time |-> ttime, invoked |-> TRUE]

----------------------------------------------------------------------------
(* gcs.py: the engine provisioner *)

\* ext:    "ok"; "raise": INSTALL/LOAD httpfs or a SET statement raises
\* chain:  "ok": CREATE SECRET ... CREDENTIAL_CHAIN and SELECT 1 pass; "fail"
\* secret: "ok": CREATE SECRET ... ACCESS_TOKEN passes; "fail": it raises and
\*         the bearer header is set instead
SetupEnvs ==
    [ext : {"ok", "raise"}, chain : {"ok", "fail"}, helper : HelperOutcomes,
     secret : {"ok", "fail"}]

\* the outcomes that differ in what the set-up does
SetupEnvOk(e) ==
    /\ (e.ext = "raise" => e.chain = "ok")
    /\ (e.chain = "ok" => e.helper = "token")
    /\ (e.helper # "token" => e.secret = "ok")
    /\ (e.chain = "ok" => e.secret = "ok")

\* a set-up that resolves the bearer token before it tries the ambient chain
setup_duckdb_gcs_token_first(tok, ttime, clock, e) ==
    LET t == get_gcs_token(tok, ttime, clock, e.helper)
    IN  IF e.ext = "raise"
        THEN [raised |-> TRUE, success |-> FALSE, auth |-> "none", resolved |-> FALSE,
              invoked |-> FALSE, tok |-> tok, time |-> ttime]
        ELSE IF e.chain = "ok"
        THEN [raised |-> FALSE, success |-> TRUE, auth |-> "chain", resolved |-> TRUE,
              invoked |-> t.invoked, tok |-> t.tok, time |-> t.time]
        ELSE IF t.ret # ""
        THEN [raised |-> FALSE, success |-> TRUE,
              auth |-> IF e.secret = "ok" THEN "secret" ELSE "headers",
              resolved |-> TRUE, invoked |-> t.invoked, tok |-> t.tok, time |-> t.time]
        ELSE [raised |-> FALSE, success |-> FALSE, auth |-> "none", resolved |-> TRUE,
              invoked |-> t.invoked, tok |-> t.tok, time |-> t.time]

\* _setup_duckdb_gcs(conn): raised, the bool returned, the credential installed,
\* whether _get_gcs_token was called and whether it ran the helper, the cache after
setup_duckdb_gcs(tok, ttime, clock, e) ==
    LET t == get_gcs_token(tok, ttime, clock, e.helper)
    IN  IF e.ext = "raise"
        THEN [raised |-> TRUE, success |-> FALSE, auth |-> "none", resolved |-> FALSE,
              invoked |-> FALSE, tok |-> tok, time |-> ttime]
        ELSE IF e.chain = "ok"
        THEN [raised |-> FALSE, success |-> TRUE, auth |-> "chain", resolved |-> FALSE,
              invoked |-> FALSE, tok |-> tok, time |-> ttime]
        ELSE IF t.ret # ""
        THEN [raised |-> FALSE, success |-> TRUE,
              auth |-> IF e.secret = "ok" THEN "secret" ELSE "headers",
              resolved |-> TRUE, invoked |-> t.invoked, tok |-> t.tok, time |-> t.time]
        ELSE [raised |-> FALSE, success |-> FALSE, auth |-> "none", resolved |-> TRUE,
              invoked |-> t.invoked, tok |-> t.tok, time |-> t.time]

\* get_connection(cfg): duckdb.connect(), then the set-up; a set-up that raises
\* leaves the function by the exception, the connection never closed
get_connection(tok, ttime, clock, e) == setup_duckdb_gcs(tok, ttime, clock, e)

----------------------------------------------------------------------------
(* gcs.py: listing and download through gsutil *)

\* the entry gsutil ls prints for an object below dir: the object itself, or
\* the sub-directory it lies in
LsEntry(dir, url) ==
    LET rest == Tail_(url, Len(dir))
        I == {i \in 1..Len(rest) : SubSeq(rest, i, i) = "/"}
    IN  IF I = {} THEN url
        ELSE dir \o SubSeq(rest, 1, CHOOSE i \in I : \A j \in I : i <= j)

\* the lines gsutil ls gcs_path prints when it succeeds
LsLines(gcs_path) ==
    LET idx == SelectSeq([i \in 1..Len(BucketKeys) |-> i],
                   LAMBDA i : StartsWith(GsUrl(BucketKeys[i]), gcs_path))
        ent(n) == LsEntry(gcs_path, GsUrl(BucketKeys[idx[n]]))
        keep == SelectSeq([n \in 1..Len(idx) |-> n],
                   LAMBDA n : \A m \in 1..(n - 1) : ent(m) # ent(n))
    IN  [n \in 1..Len(keep) |-> ent(keep[n])]

FeedInputs == KnownFeeds \cup {"bogus"}

LsDirs == {gcs_gs_path(f, d) : f \in FeedInputs, d \in {None, Today}}
LsTable == [dir \in LsDirs |-> LsLines(dir)]

\* _gsutil_ls(gcs_path): the lines printed, [] when gsutil fails (non-zero exit,
\* not installed, timeout) or nothing matches
gsutil_ls(gcs_path, outcome) == IF outcome = "ok" THEN LsTable[gcs_path] ELSE << >>

list_gcs_files(feed, date_str, outcome) == gsutil_ls(gcs_gs_path(feed, date_str), outcome)

\* _gsutil_download(gcs_path, local_path): the file written, or none
gsutil_download_ok(rem, gcs_path, failing) ==
    RemoteVer(rem, gcs_path) > 0 /\ gcs_path \notin failing

Count(f, p) == IF p \in DOMAIN f THEN f[p] ELSE 0

\* what a copy that stopped before its end leaves at the destination: some
\* of the object's bytes, the whole of no version
PartialCopy(gs) == <<gs, 0>>

\* a download that is attempted a second time when it fails
AfterDownload_retry(rem, st, gs, local, failing, partial) ==
    IF gsutil_download_ok(rem, gs, failing)
    THEN [st EXCEPT
            !.files = [p \in DOMAIN st.files \cup {local} |->
                          IF p = local THEN Content(rem, gs) ELSE st.files[p]],
            !.dl = [p \in DOMAIN st.dl \cup {local} |->
                          IF p = local THEN Count(st.dl, p) + 1 ELSE st.dl[p]],
            !.tried = Append(@, local)]
    ELSE IF gs \in partial
    THEN [st EXCEPT
            !.files = [p \in DOMAIN st.files \cup {local} |->
                          IF p = local THEN PartialCopy(gs) ELSE st.files[p]],
            !.tried = Append(Append(@, local), local)]
    ELSE [st EXCEPT !.tried = Append(Append(@, local), local)]

\* the cache directory after a download attempt of gs to local; partial: the
\* failing copies that had begun to write local_path when they stopped
AfterDownload(rem, st, gs, local, failing, partial) ==
    IF gsutil_download_ok(rem, gs, failing)
    THEN [st EXCEPT
            !.files = [p \in DOMAIN st.files \cup {local} |->
                          IF p = local THEN Content(rem, gs) ELSE st.files[p]],
            !.dl = [p \in DOMAIN st.dl \cup {local} |->
                          IF p = local THEN Count(st.dl, p) + 1 ELSE st.dl[p]],
            !.tried = Append(@, local)]
    ELSE IF gs \in partial
    THEN [st EXCEPT
            !.files = [p \in DOMAIN st.files \cup {local} |->
                          IF p = local THEN PartialCopy(gs) ELSE st.files[p]],
            !.tried = Append(@, local)]
    ELSE [st EXCEPT !.tried = Append(@, local)]

\* a dispatcher that downloads without looking at the cache directory
DownloadAlways(files, local) == TRUE

\* "if not os.path.exists(local)": the file is fetched only when it is absent
NeedsDownload(files, local) == local \notin DOMAIN files

----------------------------------------------------------------------------
(* tools.py: the query dispatcher *)

\* whether the engine's glob (or exact path) pattern selects url: one "*" stands
\* for any run of characters other than "/"
GlobMatch(url, pattern) ==
    LET I == {i \in 1..Len(pattern) : SubSeq(pattern, i, i) = "*"}
    IN  IF I = {} THEN url = pattern
        ELSE LET k == CHOOSE i \in I : TRUE
                 pre == SubSeq(pattern, 1, k - 1)
                 post == Tail_(pattern, k)
             IN  /\ Len(url) >= Len(pre) + Len(post)
                 /\ StartsWith(url, pre)
                 /\ EndsWith(url, post)
                 /\ ~Contains(SubSeq(url, Len(pre) + 1, Len(url) - Len(post)), "/")

\* a filter that keeps every parquet file of the listing
matching_files_any_type(files, file_type) ==
    SelectSeq(files, LAMBDA f : EndsWith(f, ".parquet"))

\* matching = [f for f in files if f.endswith(".parquet") and f"/{file_type}_" in f]
matching_files(files, file_type) ==
    SelectSeq(files, LAMBDA f : EndsWith(f, ".parquet")
                                /\ Contains(f, "/" \o file_type \o "_"))

HourInputs == {None, "1400", "1500"}
FileTypes == {"trade", "ticker", "last_trade_price", "best_bid_ask"}

\* what _query_with_fallback computes from its arguments alone: the remote
\* path, the objects a direct execution of the template on it reads, the
\* listing filter of the glob branch with each match's cache file, and the
\* cache file and gs:// url of the hour branch
Plan(feed, date_str, file_type, hour) ==
    LET gcs_path == gcs_parquet_path(feed, date_str, file_type, hour)
        files == list_gcs_files(feed, date_str, "ok")
        matching == matching_files(files, file_type)
    IN  [gcs_path |-> gcs_path,
         direct |-> {GsUrl(k) : k \in {x \in KeySet : GlobMatch(S3Url(x), gcs_path)}},
         matching |-> matching,
         locals |-> [i \in 1..Len(matching) |->
                        LocalPath(feed, date_str, LastSegment(matching[i]))],
         gs_path_gs |-> Replace(gcs_path, "s3://", "gs://"),
         local |-> LocalPath(feed, date_str, file_type \o "_" \o hour \o ".parquet")]

PlanTable ==
    [c \in KnownFeeds \X {Today} \X FileTypes \X HourInputs |->
        Plan(c[1], c[2], c[3], c[4])] @@ << >>

\* the objects a direct execution reads, at their present versions
DirectData(rem, plan) == {Content(rem, u) : u \in plan.direct}

\* _try_query outcomes: "ok"; "io": duckdb.IOException; "catalog":
\* duckdb.CatalogException; "other": any other exception class, not caught
DirectOutcomes == {"ok", "io", "catalog", "other"}

\* a _try_query that catches duckdb.IOException alone
try_query_caught_io_only(outcome) == outcome = "io"

\* the exceptions _try_query catches and turns into None
try_query_caught(outcome) == outcome \in {"io", "catalog"}

\* a dispatcher that runs the second query whatever it has cached
no_local_paths_never(local_paths) == FALSE

\* "if not local_paths: return []"
no_local_paths(local_paths) == Len(local_paths) = 0

\* the glob branch's loop over matching[i..]: download what is not cached,
\* keep the local paths that exist afterwards
RECURSIVE FetchAll(_, _, _, _, _, _)
FetchAll(rem, st, plan, i, failing, partial) ==
    IF i > Len(plan.matching) THEN st
    ELSE LET gf == plan.matching[i]
             local == plan.locals[i]
             s1 == IF NeedsDownload(st.files, local)
                   THEN AfterDownload(rem, st, gf, local, failing, partial)
                   ELSE st
             s2 == IF local \in DOMAIN s1.files
                   THEN [s1 EXCEPT !.paths = Append(@, local)]
                   ELSE s1
         IN  FetchAll(rem, s2, plan, i + 1, failing, partial)

\* the rows an execution returns are a function of the template and of the
\* contents of the files it reads; the template is the caller's
ReadLocal(files, paths) == {files[paths[i]] : i \in 1..Len(paths)}

\* _query_with_fallback(conn, cfg, feed, date_str, file_type, sql_template, hour),
\* plan = Plan(feed, date_str, file_type, hour)
\* e.direct: the first execution; e.ls: the listing; e.failing: the gs urls
\* whose download fails; e.partial: those of them whose copy had begun to
\* write; e.local: the second execution, "ok" or "raise"
query_with_fallback(rem, files, dl, plan, hour, e) ==
    LET st0 == [files |-> files, dl |-> dl, tried |-> << >>, paths |-> << >>]
        out(raised, rows, st, ls, second) ==
            [raised |-> raised, rows |-> rows, files |-> st.files, dl |-> st.dl,
             tried |-> st.tried, paths |-> st.paths, ls |-> ls, second |-> second,
             fallback |-> try_query_caught(e.direct)]
    IN  IF e.direct = "ok" THEN out(FALSE, DirectData(rem, plan), st0, 0, FALSE)
        ELSE IF ~try_query_caught(e.direct) THEN out(TRUE, {}, st0, 0, FALSE)
        ELSE IF hour = None
        THEN LET st == FetchAll(rem, st0, plan, 1, e.failing, e.partial)
             IN  IF e.ls # "ok" \/ Len(plan.matching) = 0
                 THEN out(FALSE, {}, st0, 1, FALSE)
                 ELSE IF no_local_paths(st.paths) THEN out(FALSE, {}, st, 1, FALSE)
                 ELSE IF e.local = "raise" THEN out(TRUE, {}, st, 1, TRUE)
                 ELSE out(FALSE, ReadLocal(st.files, st.paths), st, 1, TRUE)
        ELSE LET local == plan.local
                 s1 == IF NeedsDownload(files, local)
                       THEN AfterDownload(rem, st0, plan.gs_path_gs, local, e.failing,
                                          e.partial)
                       ELSE st0
                 st == IF local \in DOMAIN s1.files
                       THEN [s1 EXCEPT !.paths = <<local>>]
                       ELSE s1
             IN  IF local \notin DOMAIN st.files THEN out(FALSE, {}, st, 0, FALSE)
                 ELSE IF e.local = "raise" THEN out(TRUE, {}, st, 0, TRUE)
                 ELSE out(FALSE, ReadLocal(st.files, st.paths), st, 0, TRUE)

----------------------------------------------------------------------------
(* tools.py: the freeform query *)

MacroOpen == "$FEED_PATH("
Whitespace == " \t\n\r\f"
FeedChars == LowerChars \o "-"
DateChars == Digits \o "-"

\* the replacement with the date of the call whatever the macro says
MacroMatch_call_date(inner, date_str) ==
    LET C == {i \in 1..Len(inner) : SubSeq(inner, i, i) = ","}
        k == IF C = {} THEN Len(inner) + 1 ELSE CHOOSE i \in C : \A j \in C : i <= j
        f == StripChars(Left(inner, k - 1), Whitespace)
        g == StripChars(Tail_(inner, k), Whitespace)
    IN  [ok |-> /\ f # "" /\ AllIn(f, FeedChars)
                /\ (C # {} => g # "" /\ AllIn(g, DateChars)),
         text |-> "s3://" \o gcs_bucket \o "/" \o feed_paths_get(f) \o "/" \o date_str \o "/"]

\* expand_feed_path(match) for the text between the parentheses of one macro
\* occurrence: whether the regex matches it, and the replacement
MacroMatch(inner, date_str) ==
    LET C == {i \in 1..Len(inner) : SubSeq(inner, i, i) = ","}
        k == IF C = {} THEN Len(inner) + 1 ELSE CHOOSE i \in C : \A j \in C : i <= j
        f == StripChars(Left(inner, k - 1), Whitespace)
        g == StripChars(Tail_(inner, k), Whitespace)
        d == IF C = {} THEN date_str ELSE g
    IN  [ok |-> /\ f # "" /\ AllIn(f, FeedChars)
                /\ (C # {} => g # "" /\ AllIn(g, DateChars)),
         text |-> "s3://" \o gcs_bucket \o "/" \o feed_paths_get(f) \o "/" \o d \o "/"]

\* re.sub(r'\$FEED_PATH\(\s*([a-z-]+)\s*(?:,\s*([0-9-]+)\s*)?\)', expand_feed_path, sql):
\* the leftmost match is replaced, and the search goes on behind it
RECURSIVE ExpandFeedPath(_, _)
ExpandFeedPath(sql, date_str) ==
    LET rest(i) == Tail_(sql, i - 1 + Len(MacroOpen))
        close(i) == {j \in 1..Len(rest(i)) : SubSeq(rest(i), j, j) = ")"}
        first(i) == CHOOSE j \in close(i) : \A x \in close(i) : j <= x
        m(i) == MacroMatch(Left(rest(i), first(i) - 1), date_str)
        P == {i \in 1..Len(sql) :
                 /\ StartsWith(Tail_(sql, i - 1), MacroOpen)
                 /\ close(i) # {}
                 /\ m(i).ok}
        p == CHOOSE i \in P : \A j \in P : i <= j
    IN  IF P = {} THEN sql
        ELSE Left(sql, p - 1) \o m(p).text
                 \o ExpandFeedPath(Tail_(sql, p - 1 + Len(MacroOpen) + first(p)), date_str)

RowCap == " LIMIT 1000"

\* the row-limit step of query_raw
EnforceLimit(expanded) ==
    IF ~InUpper("LIMIT", expanded)
    THEN RStripChars(expanded, "; \n") \o RowCap
    ELSE expanded

\* the objects an execution of sql reads: those its first quoted path selects
SqlReads(sql) ==
    LET Q == {i \in 1..Len(sql) : SubSeq(sql, i, i) = "'"}
        a == CHOOSE i \in Q : \A j \in Q : i <= j
        b == CHOOSE i \in Q \ {a} : \A j \in Q \ {a} : i <= j
    IN  IF Cardinality(Q) < 2 \/ b = a + 1 THEN {}
        ELSE {GsUrl(x) : x \in {y \in KeySet : GlobMatch(S3Url(y), SubSeq(sql, a + 1, b - 1))}}

\* the caller's SQL texts
RawSqls ==
    {"SELECT 1",
     "SELECT * FROM '$FEED_PATH(kalshi)ticker_*.parquet' limit 5",
     "SELECT * FROM '$FEED_PATH( kalshi , 2025-01-15 )trade_1400.parquet' ;\n"}

\* the text query_raw executes for (sql, date_str): the macros expanded, then
\* the row limit enforced
raw_sql(sql, date_str) == EnforceLimit(ExpandFeedPath(sql, date_str))

\* what query_raw computes from (sql, date_str) before it executes
RawTable ==
    [c \in RawSqls \X {Today} |->
        LET sql == raw_sql(c[1], c[2])
        IN  [sql |-> sql, reads |-> SqlReads(sql)]] @@ << >>

----------------------------------------------------------------------------
(* gcs.py, tools.py: the freshness prober *)

StaleThresholdHours == 7

\* the date-shape test of list_gcs_dates
DateShaped(c) == Len(c) = 10 /\ SubSeq(c, 5, 5) = "-" /\ SubSeq(c, 8, 8) = "-"

\* what list_gcs_dates makes of the entries gsutil ls returned
dates_of_entries(entries, max_dates) ==
    LET cands == [n \in 1..Len(entries) |-> LastSegment(entries[n])]
        dates == SortSeq(SelectSeq(cands, DateShaped), LAMBDA a, b : StrLess(b, a))
    IN  IF Len(dates) <= max_dates THEN dates ELSE SubSeq(dates, 1, max_dates)

\* list_gcs_dates(cfg, feed, max_dates)
list_gcs_dates(feed, max_dates, outcome) ==
    dates_of_entries(gsutil_ls(gcs_gs_path(feed, None), outcome), max_dates)

\* the date listings the operations ask for
DatesTable ==
    [c \in FeedInputs \X {3, 10} \X {"ok", "fail"} |->
        list_gcs_dates(c[1], c[2], c[3])] @@ << >>

\* days from 1970-01-01 to the civil date (y, m, d)
DaysFromCivil(y, m, d) ==
    LET yy == IF m <= 2 THEN y - 1 ELSE y
        era == yy \div 400
        yoe == yy - era * 400
        mp == (m + 9) % 12
        doy == (153 * mp + 2) \div 5 + d - 1
        doe == yoe * 365 + yoe \div 4 - yoe \div 100 + doy
    IN  era * 146097 + doe - 719468

DaysInMonth(y, m) ==
    IF m = 2 THEN (IF y % 4 = 0 /\ (y % 100 # 0 \/ y % 400 = 0) THEN 29 ELSE 28)
    ELSE IF m \in {4, 6, 9, 11} THEN 30 ELSE 31

\* datetime.strptime(s, "%Y-%m-%d") of a date-shaped s: ok = no ValueError
ParseDate(s) ==
    LET ys == SubSeq(s, 1, 4)
        ms == SubSeq(s, 6, 7)
        ds == SubSeq(s, 9, 10)
        digits == IsDigit(ys) /\ IsDigit(ms) /\ IsDigit(ds)
        y == ToInt(ys)
        m == ToInt(ms)
        d == ToInt(ds)
        ok == digits /\ y >= 1 /\ m \in 1..12 /\ d \in 1..DaysInMonth(y, m)
    IN  [ok |-> ok, days |-> IF ok THEN DaysFromCivil(y, m, d) ELSE 0]

TodayDays == ParseDate(Today).days

\* the hour token of one listed file, None where there is none
HourToken(fp) ==
    LET fname == LastSegment(fp)
        base == Replace(Replace(Replace(fname, ".parquet", ""), ".jsonl.gz", ""),
                        ".jsonl", "")
        U == {i \in 1..Len(base) : SubSeq(base, i, i) = "_"}
        hour_part == Tail_(base, CHOOSE i \in U : \A j \in U : j <= i)
    IN  IF U # {} /\ IsDigit(hour_part) /\ Len(hour_part) = 4 THEN hour_part ELSE None

\* the outcomes of the two listings of one feed's probe
ProbeEnvs == {"ok", "dates_fail", "files_fail"}

ParquetFiles(files) == SelectSeq(files, LAMBDA fp : EndsWith(fp, ".parquet"))

JsonlFiles(files) ==
    SelectSeq(files, LAMBDA fp : EndsWith(fp, ".jsonl") \/ EndsWith(fp, ".jsonl.gz"))

\* the hour token of the last data file that has one
NewestHour_last(all_data_files) ==
    LET K == {n \in 1..Len(all_data_files) : HourToken(all_data_files[n]) # None}
    IN  IF K = {} THEN None
        ELSE HourToken(all_data_files[CHOOSE n \in K : \A k \in K : k <= n])

\* the greatest hour token of the data files, None if there is none
NewestHour(all_data_files) ==
    LET H == {HourToken(all_data_files[n]) : n \in 1..Len(all_data_files)} \ {None}
    IN  IF H = {} THEN None ELSE CHOOSE h \in H : \A g \in H : g = h \/ StrLess(g, h)

\* a timestamp that leaves the hour of the newest file out
ProbeTime_midnight(p, h) ==
    [ok |-> p.ok /\ h <= 23, at |-> (p.days - TodayDays) * 86400]

\* the timestamp check_freshness forms of the newest date, parsed to p, and
\* the hour h, in seconds from the midnight Today begins with; ok: no ValueError
ProbeTime(p, h) ==
    [ok |-> p.ok /\ h <= 23, at |-> (p.days - TodayDays) * 86400 + h * 3600]

ProbeRecord(newest_date, newest_hour, t, file_count, parquet_count) ==
    [no_data |-> FALSE, ls |-> 2, newest_date |-> newest_date,
     newest_hour |-> newest_hour, age_known |-> t.ok, at |-> t.at,
     file_count |-> file_count, parquet_count |-> parquet_count]

ProbeHour(newest_date, newest_hour, file_count, parquet_count) ==
    ProbeRecord(newest_date, newest_hour,
                ProbeTime(ParseDate(newest_date),
                          IF newest_hour = None THEN 0 ELSE ToInt(Left(newest_hour, 2))),
                file_count, parquet_count)

\* what check_freshness finds in the newest partition
ProbeFiles(newest_date, parquet_files, jsonl_files) ==
    ProbeHour(newest_date, NewestHour(parquet_files \o jsonl_files),
              Len(parquet_files) + Len(jsonl_files), Len(parquet_files))

ProbeDates(f, e, dates) ==
    IF Len(dates) = 0
    THEN [no_data |-> TRUE, ls |-> 1]
    ELSE ProbeFiles(dates[1],
             ParquetFiles(list_gcs_files(f, dates[1],
                              IF e = "files_fail" THEN "fail" ELSE "ok")),
             JsonlFiles(list_gcs_files(f, dates[1],
                              IF e = "files_fail" THEN "fail" ELSE "ok")))

\* what check_freshness finds for one feed, the clock apart
FreshProbe(f, e) ==
    ProbeDates(f, e, DatesTable[<<f, 3, IF e = "dates_fail" THEN "fail" ELSE "ok">>])

ProbeTable == [c \in FeedInputs \X ProbeEnvs |-> FreshProbe(c[1], c[2])] @@ << >>

\* a check for which an age of exactly the threshold is stale already
is_stale_inclusive(age_known, age) == age_known /\ age >= StaleThresholdHours * 3600

\* is_stale = age_hours is not None and age_hours > stale_threshold_hours,
\* the age in seconds
is_stale(age_known, age) == age_known /\ age > StaleThresholdHours * 3600

\* a check that takes a feed without partitions for fresh
FreshEntry_no_data_fresh(f, p, clock) ==
    IF p.no_data
    THEN [feed |-> f, status |-> "no_data", newest_date |-> None, stale |-> FALSE]
    ELSE [feed |-> f,
          status |-> IF p.age_known /\ clock - p.at > StaleThresholdHours * 3600
                     THEN "stale" ELSE "fresh",
          newest_date |-> p.newest_date, newest_hour |-> p.newest_hour,
          age_known |-> p.age_known, age |-> IF p.age_known THEN clock - p.at ELSE 0,
          stale |-> p.age_known /\ clock - p.at > StaleThresholdHours * 3600,
          file_count |-> p.file_count, parquet_count |-> p.parquet_count]

\* the entry check_freshness appends for feed f, p what it finds; age in seconds
FreshEntry(f, p, clock) ==
    IF p.no_data
    THEN [feed |-> f, status |-> "no_data", newest_date |-> None, stale |-> TRUE]
    ELSE [feed |-> f,
          status |-> IF is_stale(p.age_known, clock - p.at) THEN "stale" ELSE "fresh",
          newest_date |-> p.newest_date, newest_hour |-> p.newest_hour,
          age_known |-> p.age_known, age |-> IF p.age_known THEN clock - p.at ELSE 0,
          stale |-> is_stale(p.age_known, clock - p.at),
          file_count |-> p.file_count, parquet_count |-> p.parquet_count]

\* round(age_hours, 1) of an age in seconds, in tenths of an hour (the ages
\* checked are never half-way between two tenths)
round_age_hours(age) == (age + 180) \div 360

----------------------------------------------------------------------------
(* api.py: the REST client *)

NotConfigured == [error |-> "SSMD_API_URL not configured"]
RequestFailed == [error |-> "API request failed"]

\* what one HTTP request does: "ok": 200 with a JSON body; "404", "500":
\* raise_for_status raises HTTPStatusError; "refused": ConnectError; "timeout":
\* ReadTimeout; "badjson": 200 with a body resp.json() cannot decode
HttpOutcomes == {"ok", "404", "500", "refused", "timeout", "badjson"}

\* a client that catches httpx.HTTPStatusError alone
IsHTTPStatusError(outcome) == outcome \in {"404", "500"}

\* the outcomes that raise a subclass of httpx.HTTPError
IsHTTPError(outcome) == outcome \in {"404", "500", "refused", "timeout"}

\* a client that sends the request whatever cfg.api_url holds
api_request_unguarded(url, outcome, body) ==
    IF outcome = "ok" THEN [raised |-> FALSE, ret |-> body, http |-> 1]
    ELSE IF IsHTTPError(outcome) THEN [raised |-> FALSE, ret |-> RequestFailed, http |-> 1]
    ELSE [raised |-> TRUE, ret |-> [error |-> "raised"], http |-> 1]

\* the body of api_get, api_post and get_catalog alike: ret the value
\* returned, raised an exception leaving the function, http the requests sent
api_request(url, outcome, body) ==
    IF url = "" THEN [raised |-> FALSE, ret |-> NotConfigured, http |-> 0]
    ELSE IF outcome = "ok" THEN [raised |-> FALSE, ret |-> body, http |-> 1]
    ELSE IF IsHTTPError(outcome) THEN [raised |-> FALSE, ret |-> RequestFailed, http |-> 1]
    ELSE [raised |-> TRUE, ret |-> [error |-> "raised"], http |-> 1]

api_get(url, outcome, body) == api_request(url, outcome, body)
api_post(url, outcome, body) == api_request(url, outcome, body)
get_catalog(url, outcome, body) == api_request(url, outcome, body)

\* f"{feed or ''}:{mid}"
cache_key(feed, mid) == feed \o ":" \o mid

\* m.get("id") or m.get("market_ticker") or m.get("product_id", "")
MarketId(m) ==
    IF "id" \in DOMAIN m /\ m.id # "" THEN m.id
    ELSE IF "market_ticker" \in DOMAIN m /\ m.market_ticker # "" THEN m.market_ticker
    ELSE IF "product_id" \in DOMAIN m THEN m.product_id ELSE ""

\* _market_cache after the loop over the answer's records
CacheAfter(cache, feed, markets) ==
    [k \in DOMAIN cache \cup {cache_key(feed, MarketId(markets[n])) : n \in 1..Len(markets)} |->
        IF \E n \in 1..Len(markets) : cache_key(feed, MarketId(markets[n])) = k
        THEN markets[CHOOSE n \in 1..Len(markets) :
                       /\ cache_key(feed, MarketId(markets[n])) = k
                       /\ \A j \in (n + 1)..Len(markets) :
                             cache_key(feed, MarketId(markets[j])) # k]
        ELSE cache[k]]

\* the ids of the call that miss the cache, in order
UncachedIds(cache, ids, feed) ==
    SelectSeq(ids, LAMBDA mid : cache_key(feed, mid) \notin DOMAIN cache)

\* the cached records of the ids that hit, in order
CachedResults(cache, ids, feed) ==
    [n \in 1..Len(SelectSeq(ids, LAMBDA mid : cache_key(feed, mid) \in DOMAIN cache)) |->
        cache[cache_key(feed,
                 SelectSeq(ids, LAMBDA mid : cache_key(feed, mid) \in DOMAIN cache)[n])]]

\* lookup_markets(cfg, ids, feed): markets is the list the API answers with
lookup_markets(url, cache, ids, feed, outcome, markets) ==
    IF url = ""
    THEN [raised |-> FALSE, ret |-> <<NotConfigured>>, cache |-> cache, http |-> 0]
    ELSE IF Len(UncachedIds(cache, ids, feed)) = 0
    THEN [raised |-> FALSE, ret |-> CachedResults(cache, ids, feed),
          cache |-> cache, http |-> 0]
    ELSE IF outcome = "ok"
    THEN [raised |-> FALSE, ret |-> CachedResults(cache, ids, feed) \o markets,
          cache |-> CacheAfter(cache, feed, markets), http |-> 1]
    ELSE IF IsHTTPError(outcome)
    THEN [raised |-> FALSE, ret |-> CachedResults(cache, ids, feed) \o <<RequestFailed>>,
          cache |-> cache, http |-> 1]
    ELSE [raised |-> TRUE, ret |-> << >>, cache |-> cache, http |-> 1]

\* tools.lookup_market(cfg, ids, feed): the envelope around the results
lookup_market(results) == [count |-> Len(results), markets |-> results]

----------------------------------------------------------------------------
(* What a call of a public operation is observed to do *)

NoIo == [sessions |-> 0, helper |-> 0, ls |-> 0, dl |-> 0, http |-> 0]

\* the dispatcher was not called
NoDispatch ==
    [called |-> FALSE, file_type |-> None, fallback |-> FALSE, tried |-> << >>,
     rows |-> {}, second |-> FALSE]

NoCall ==
    [op |-> "none", feed |-> None, hour |-> None, outcome |-> "none",
     payload |-> [kind |-> "none"], io |-> NoIo, closed |-> TRUE, d |-> NoDispatch,
     probe |-> << >>]

\* date.today().strftime("%Y-%m-%d"): the clock stays within Today
today_str == Today

DateInputs == {None, Today}

\* "date_str = date_str or today_str()", over the dates callers pass
DateArgs == {IF d # None THEN d ELSE today_str : d \in DateInputs}

\* the session set-ups drawn for the query operations: the ambient chain
\* authenticates, or loading the extension raises
QuerySetups ==
    {[ext |-> "ok", chain |-> "ok", helper |-> "token", secret |-> "ok"],
     [ext |-> "raise", chain |-> "ok", helper |-> "token", secret |-> "ok"]}

\* the draws of the dispatcher's collaborators that make a difference to a
\* call with this plan: a direct execution passes only where there is
\* something to read, and what is never looked at is fixed
DispatchEnvs(plan, hour) ==
    {e \in [direct : DirectOutcomes, ls : {"ok", "fail"},
            failing : SUBSET plan.direct, partial : {{}}, local : {"ok", "raise"}] :
        /\ e.direct = "ok" => plan.direct # {}
        /\ e.direct \in {"ok", "other"} => e.ls = "ok" /\ e.failing = {} /\ e.local = "ok"
        /\ hour # None => e.ls = "ok"
        /\ e.ls = "fail" => e.failing = {} /\ e.local = "ok"
        /\ e.failing = plan.direct => e.local = "ok"}

\* the same draws, and those where one failing copy leaves what it had written
CopyEnvs(plan, hour) ==
    DispatchEnvs(plan, hour)
    \cup UNION {{[e EXCEPT !.partial = {u}] : u \in e.failing} :
                  e \in {d \in DispatchEnvs(plan, hour) : d.direct = "io"}}

UnknownFeed(feed) ==
    [kind |-> "error", error |-> "Unknown feed: " \o feed, valid |-> FeedKeys]

\* the part query_trades and query_prices share: open a session, dispatch,
\* close, wrap the rows
FeedQuery(op, key, feed, date_str, file_type, hour) ==
    \E plan \in {PlanTable[<<feed, date_str, file_type, hour>>]}, se \in QuerySetups :
    \E c \in {get_connection(gcs_token, gcs_token_time, now, se)} :
        IF c.raised
        THEN /\ last' = [NoCall EXCEPT !.op = op, !.feed = feed, !.hour = hour,
                                       !.outcome = "raised", !.io.sessions = 1,
                                       !.closed = FALSE]
             /\ UNCHANGED <<tmpfiles, dlOk>>
        ELSE \E de \in DispatchEnvs(plan, hour) :
             \E r \in {query_with_fallback(remote, tmpfiles, dlOk, plan, hour, de)} :
                /\ tmpfiles' = r.files
                /\ dlOk' = r.dl
                /\ last' =
                     [op |-> op, feed |-> feed, hour |-> hour,
                      outcome |-> IF r.raised THEN "raised" ELSE "returned",
                      payload |-> IF r.raised THEN [kind |-> "none"]
                                  ELSE [kind |-> key, feed |-> feed,
                                        date |-> date_str, rows |-> r.rows],
                      io |-> [NoIo EXCEPT !.sessions = 1, !.ls = r.ls,
                                          !.dl = Len(r.tried)],
                      closed |-> ~r.raised,
                      d |-> [called |-> TRUE, file_type |-> file_type,
                             fallback |-> r.fallback, tried |-> r.tried,
                             rows |-> r.rows, second |-> r.second]]

\* query_trades(cfg, feed, date_str, limit)
QueryTrades ==
    \E feed \in FeedInputs, date_str \in DateArgs :
        IF feed \notin KnownFeeds
        THEN /\ last' = [NoCall EXCEPT !.op = "query_trades", !.feed = feed,
                                       !.outcome = "returned",
                                       !.payload = UnknownFeed(feed)]
             /\ UNCHANGED <<tmpfiles, dlOk>>
        ELSE FeedQuery("query_trades", "trades", feed, date_str,
                       IF feed = "polymarket" THEN "last_trade_price" ELSE "trade",
                       None)

\* query_prices(cfg, feed, date_str, hour)
QueryPrices ==
    \E feed \in FeedInputs, date_str \in DateArgs, hour \in HourInputs :
        IF feed \notin KnownFeeds
        THEN /\ last' = [NoCall EXCEPT !.op = "query_prices", !.feed = feed,
                                       !.hour = hour, !.outcome = "returned",
                                       !.payload = UnknownFeed(feed)]
             /\ UNCHANGED <<tmpfiles, dlOk>>
        ELSE FeedQuery("query_prices", "prices", feed, date_str,
                       price_type(feed), hour)

\* query_raw(cfg, sql, feed, date_str): the session is opened before the try
\* block; feed is not read
QueryRaw ==
    \E sql \in RawSqls, feed \in {None, "bogus"}, date_str \in DateArgs,
       se \in QuerySetups, x \in {"ok", "raise"} :
    \E c \in {get_connection(gcs_token, gcs_token_time, now, se)},
       q \in {RawTable[<<sql, date_str>>]} :
        /\ se.ext = "raise" => x = "ok"
        /\ last' =
             IF c.raised
             THEN [NoCall EXCEPT !.op = "query_raw", !.feed = feed, !.outcome = "raised",
                                 !.io.sessions = 1, !.closed = FALSE]
             ELSE [NoCall EXCEPT
                     !.op = "query_raw", !.feed = feed, !.outcome = "returned",
                     !.io.sessions = 1,
                     !.payload =
                        IF x = "raise"
                        THEN [kind |-> "error", error |-> "engine", sql |-> q.sql]
                        ELSE [kind |-> "raw", sql |-> q.sql,
                              rows |-> {Content(remote, u) : u \in q.reads}]]
        /\ UNCHANGED <<tmpfiles, dlOk>>

RECURSIVE SumSeq(_)
SumSeq(q) == IF q = << >> THEN 0 ELSE Head(q) + SumSeq(Tail(q))

\* check_freshness(cfg, feed): env[i] is how the listings of the i-th feed go,
\* kept in last.probe
CheckFreshness ==
    \E feed \in {None} \cup FeedInputs :
    \E feeds \in {IF feed # None THEN <<feed>> ELSE FeedKeys} :
    \E env \in [1..Len(feeds) -> ProbeEnvs] :
        /\ \A i \in 1..Len(feeds) :
              ProbeTable[<<feeds[i], "ok">>].no_data => env[i] = "ok"
        /\ last' =
             [NoCall EXCEPT
                !.op = "check_freshness", !.feed = feed, !.outcome = "returned",
                !.probe = env,
                !.io.ls = SumSeq([i \in 1..Len(feeds) |->
                                     ProbeTable[<<feeds[i], env[i]>>].ls]),
                !.payload =
                   [kind |-> "freshness", checked_at |-> now,
                    stale_threshold_hours |-> StaleThresholdHours,
                    feeds |-> [i \in 1..Len(feeds) |-> FreshEntry(feeds[i], ProbeTable[<<feeds[i], env[i]>>], now)]]]
        /\ UNCHANGED <<tmpfiles, dlOk>>

\* the catalog bodies the API answers GET /v1/catalog with
CatalogBodies ==
    {[feeds |-> <<[name |-> "kalshi", markets |-> 12]>>],
     [feeds |-> <<[feed |-> "polymarket"], [name |-> "other"]>>],
     [status |-> "starting"]}

Get(m, f) == IF f \in DOMAIN m THEN m[f] ELSE None

\* the catalog entry list_feeds merges into feed_name's record, << >> if none
CatalogFor(catalog, feed_name) ==
    IF "feeds" \in DOMAIN catalog
    THEN LET K == {k \in 1..Len(catalog.feeds) :
                      \/ Get(catalog.feeds[k], "name") = feed_name
                      \/ Get(catalog.feeds[k], "feed") = feed_name}
         IN  IF K = {} THEN << >>
             ELSE <<catalog.feeds[CHOOSE k \in K : \A j \in K : k <= j]>>
    ELSE << >>

\* list_feeds(cfg): env[i] is how the date listing of the i-th feed goes
ListFeeds ==
    \E http \in HttpOutcomes, body \in CatalogBodies, env \in [1..Len(FeedKeys) -> {"ok", "fail"}] :
    \E g \in {IF api_url # "" THEN get_catalog(api_url, http, body)
              ELSE [raised |-> FALSE, ret |-> << >>, http |-> 0]} :
        /\ (api_url = "" \/ http # "ok") => body = [status |-> "starting"]
        /\ api_url = "" => http = "ok"
        /\ g.raised => \A i \in 1..Len(FeedKeys) : env[i] = "ok"
        /\ last' =
             IF g.raised
             THEN [NoCall EXCEPT !.op = "list_feeds", !.outcome = "raised",
                                 !.io.http = g.http]
             ELSE [NoCall EXCEPT
                     !.op = "list_feeds", !.outcome = "returned",
                     !.io.http = g.http, !.io.ls = Len(FeedKeys),
                     !.payload =
                        [kind |-> "feeds",
                         feeds |-> [i \in 1..Len(FeedKeys) |->
                            [feed |-> FeedKeys[i],
                             gcs_prefix |-> feed_paths_get(FeedKeys[i]),
                             parquet_types |-> feed_types_get(FeedKeys[i]),
                             available_dates |-> DatesTable[<<FeedKeys[i], 10, env[i]>>],
                             date_count |-> Len(DatesTable[<<FeedKeys[i], 10, env[i]>>]),
                             catalog |-> CatalogFor(g.ret, FeedKeys[i])]]]]
        /\ UNCHANGED <<tmpfiles, dlOk>>

----------------------------------------------------------------------------
(* The dispatcher, on its own *)

\* one call of _query_with_fallback(conn, cfg, feed, date_str, file_type,
\* sql_template, hour): e is what its collaborators do, pre the cache
\* directory before the call, r what the call does and returns
Dispatch ==
    \E feed \in KnownFeeds, file_type \in FileTypes, hour \in HourInputs :
    \E plan \in {PlanTable[<<feed, Today, file_type, hour>>]} :
    \E de \in CopyEnvs(plan, hour) :
    \E r \in {query_with_fallback(remote, tmpfiles, dlOk, plan, hour, de)} :
        /\ tmpfiles' = r.files
        /\ dlOk' = r.dl
        /\ pure' = [op |-> "dispatch", feed |-> feed, file_type |-> file_type,
                    hour |-> hour, e |-> de, pre |-> tmpfiles, r |-> r]

----------------------------------------------------------------------------
(* The credential resolver and the session set-up, on their own *)

NoCred ==
    [op |-> "none", at |-> 0, pre_fetched |-> NoTime, pre_token |-> "",
     pre_time |-> NoTime,
     resolved |-> FALSE, invoked |-> FALSE, helper |-> "none", ret |-> "",
     raised |-> FALSE, success |-> FALSE, auth |-> "none", chain |-> "none"]

\* one call of _get_gcs_token()
ResolveToken ==
    \E helper \in HelperOutcomes :
    \E t \in {get_gcs_token(gcs_token, gcs_token_time, now, helper)} :
        /\ ~t.invoked => helper = "token"
        /\ gcs_token' = t.tok
        /\ gcs_token_time' = t.time
        /\ fetched' = IF t.invoked /\ helper = "token" THEN now ELSE fetched
        /\ clast' = [NoCred EXCEPT !.op = "get_gcs_token", !.at = now,
                                   !.pre_fetched = fetched, !.pre_token = gcs_token,
                                   !.pre_time = gcs_token_time,
                                   !.resolved = TRUE, !.invoked = t.invoked,
                                   !.helper = IF t.invoked THEN helper ELSE "none",
                                   !.ret = t.ret]
        /\ UNCHANGED now

\* one call of get_connection(cfg)
OpenSession ==
    \E se \in SetupEnvs :
    \E c \in {get_connection(gcs_token, gcs_token_time, now, se)} :
        /\ SetupEnvOk(se)
        /\ (c.resolved /\ ~c.invoked) => se.helper = "token"
        /\ gcs_token' = c.tok
        /\ gcs_token_time' = c.time
        /\ fetched' = IF c.invoked /\ se.helper = "token" THEN now ELSE fetched
        /\ clast' = [NoCred EXCEPT !.op = "get_connection", !.at = now,
                                   !.pre_fetched = fetched, !.pre_token = gcs_token,
                                   !.pre_time = gcs_token_time,
                                   !.resolved = c.resolved, !.invoked = c.invoked,
                                   !.helper = IF c.invoked THEN se.helper ELSE "none",
                                   !.ret = IF c.resolved /\ c.success THEN c.tok ELSE "",
                                   !.raised = c.raised, !.success = c.success,
                                   !.auth = c.auth,
                                   !.chain = IF c.raised THEN "none" ELSE se.chain]
        /\ UNCHANGED now

\* time passes
Tick ==
    /\ now + ClockStep <= StartClock + MaxTicks * ClockStep
    /\ now' = now + ClockStep
    /\ UNCHANGED <<gcs_token, gcs_token_time, fetched, clast>>

----------------------------------------------------------------------------
(* The REST client, on its own *)

NoApi ==
    [op |-> "none", ids |-> << >>, feed |-> None, drawn |-> "none", known |-> FALSE,
     prior |-> << >>, series |-> None, as_of |-> None, limit |-> None,
     raised |-> FALSE, http |-> 0, payload |-> [kind |-> "none"]]

\* the JSON bodies the API answers a generic request with
ApiBodies == {[count |-> 0, rows |-> << >>], [feeds |-> << >>]}

ApiCall(op, r, outcome) ==
    [NoApi EXCEPT !.op = op, !.drawn = IF r.http = 1 THEN outcome ELSE "none",
                  !.raised = r.raised, !.http = r.http,
                  !.payload = IF r.raised THEN [kind |-> "none"] ELSE r.ret]

\* api_get(cfg, path, params)
ApiGet ==
    \E outcome \in HttpOutcomes, body \in ApiBodies :
    \E r \in {api_get(api_url, outcome, body)} :
        /\ (api_url = "" \/ outcome # "ok") => body = [feeds |-> << >>]
        /\ api_url = "" => outcome = "ok"
        /\ apilast' = ApiCall("api_get", r, outcome)
        /\ UNCHANGED <<market_cache, answered>>

\* api_post(cfg, path, json_body)
ApiPost ==
    \E outcome \in HttpOutcomes, body \in ApiBodies :
    \E r \in {api_post(api_url, outcome, body)} :
        /\ (api_url = "" \/ outcome # "ok") => body = [feeds |-> << >>]
        /\ api_url = "" => outcome = "ok"
        /\ apilast' = ApiCall("api_post", r, outcome)
        /\ UNCHANGED <<market_cache, answered>>

\* get_catalog(cfg)
GetCatalog ==
    \E outcome \in HttpOutcomes, body \in CatalogBodies :
    \E r \in {get_catalog(api_url, outcome, body)} :
        /\ (api_url = "" \/ outcome # "ok") => body = [status |-> "starting"]
        /\ api_url = "" => outcome = "ok"
        /\ apilast' = ApiCall("get_catalog", r, outcome)
        /\ UNCHANGED <<market_cache, answered>>

\* str.isalnum()
IsAlnum(s) == s # "" /\ AllIn(s, LowerChars \o UpperChars \o Digits)

InvalidSeries == [error |-> "Invalid series format"]

\* a get_fees that passes every series on to the API
get_fees_unvalidated(url, series, outcome, body) == api_get(url, outcome, body)

\* get_fees(cfg, series, as_of, limit): a series that is not alphanumeric is
\* refused before any request; otherwise GET /v1/fees or /v1/fees/{series}
get_fees(url, series, outcome, body) ==
    IF series # None /\ ~IsAlnum(series)
    THEN [raised |-> FALSE, ret |-> InvalidSeries, http |-> 0]
    ELSE api_get(url, outcome, body)

\* the series callers ask the fees of, and the bodies the API answers with
SeriesInputs ==
    {None, "KXBTCD", "KXETHD", "kxbtc1", "DROP TABLE; --", "KX-BTC", "KX BTC", "../v1/keys"}

FeeBodies == {[count |-> 0, fees |-> << >>], [series |-> "KXBTCD", history |-> << >>]}

\* one call of get_fees
GetFees ==
    \E series \in SeriesInputs, as_of \in {None, "2025-07-01"}, limit \in {None, "5"},
       outcome \in HttpOutcomes, body \in FeeBodies :
    \E r \in {get_fees(api_url, series, outcome, body)} :
        /\ (r.http = 0 \/ outcome # "ok") => body = [count |-> 0, fees |-> << >>]
        /\ r.http = 0 => outcome = "ok"
        /\ series = None => as_of = None
        /\ apilast' = [ApiCall("get_fees", r, outcome) EXCEPT !.series = series,
                                                              !.as_of = as_of,
                                                              !.limit = limit]
        /\ UNCHANGED <<market_cache, answered>>

\* the ids callers look up, and the records the API knows
Ids == {"KXBTC", "ETH"}
MarketPool ==
    {[id |-> "42", market_ticker |-> "KXBTC"], [id |-> "ETH", market_ticker |-> "ETH"]}

\* the id fields of a record
IdFields(m) ==
    {m[f] : f \in DOMAIN m \cap {"id", "market_ticker", "product_id"}}

SeqsUpTo(S, n) == UNION {[1..k -> S] : k \in 0..n}

\* lookup_market(cfg, ids, feed): the API answers a request with records that
\* carry one of the requested ids in one of their id fields
LookupMarket ==
    \E ids \in SeqsUpTo(Ids, MaxIds) \ {<< >>}, feed \in {None, "kalshi"},
       outcome \in HttpOutcomes, markets \in SeqsUpTo(MarketPool, MaxMarkets) :
    \E r \in {lookup_markets(api_url, market_cache, ids, feed, outcome, markets)},
       asked \in {UncachedIds(market_cache, ids, feed)} :
        /\ (r.http = 0 \/ outcome # "ok") => markets = << >>
        /\ r.http = 0 => outcome = "ok"
        /\ \A n \in 1..Len(markets) :
              \E k \in 1..Len(asked) : asked[k] \in IdFields(markets[n])
        /\ market_cache' = r.cache
        /\ answered' =
             [k \in DOMAIN answered \cup
                    {<<feed, asked[j]>> : j \in {i \in 1..Len(asked) :
                        \E n \in 1..Len(markets) : asked[i] \in IdFields(markets[n])}} |->
                 IF k \in DOMAIN answered THEN answered[k]
                 ELSE markets[CHOOSE n \in 1..Len(markets) :
                        /\ k[2] \in IdFields(markets[n])
                        /\ \A j \in 1..(n - 1) : k[2] \notin IdFields(markets[j])]]
        /\ apilast' =
             [NoApi EXCEPT
                !.op = "lookup_market", !.ids = ids, !.feed = feed,
                !.drawn = IF r.http = 1 THEN outcome ELSE "none",
                !.known = \A k \in 1..Len(ids) : <<feed, ids[k]>> \in DOMAIN answered,
                !.prior = IF \A k \in 1..Len(ids) : <<feed, ids[k]>> \in DOMAIN answered
                          THEN [k \in 1..Len(ids) |-> answered[<<feed, ids[k]>>]]
                          ELSE << >>,
                !.raised = r.raised, !.http = r.http,
                !.payload = IF r.raised THEN [kind |-> "none"] ELSE lookup_market(r.ret)]

----------------------------------------------------------------------------
(* The pure functions, on their own *)

NoPure == [op |-> "none"]

\* the arguments the path builder is applied to: feeds in and out of the
\* prefix table, dates, file types, and hours as HHMM tokens or omitted
PathFeeds == KnownFeeds \cup {"bogus", "coinbase"}
PathDates == {Today, "2024-12-31"}
PathHours == {None, "0000", "1400", "1500"}

\* gcs_parquet_path(cfg, feed, date_str, file_type, hour)
BuildParquetPath ==
    \E feed \in PathFeeds, date_str \in PathDates, file_type \in FileTypes,
       hour \in PathHours :
        pure' = [op |-> "gcs_parquet_path", feed |-> feed, date_str |-> date_str,
                 file_type |-> file_type, hour |-> hour,
                 out |-> gcs_parquet_path(feed, date_str, file_type, hour)]

\* gcs_gs_path(cfg, feed, date_str)
BuildGsPath ==
    \E feed \in PathFeeds, date_str \in PathDates \cup {None} :
        pure' = [op |-> "gcs_gs_path", feed |-> feed, date_str |-> date_str,
                 out |-> gcs_gs_path(feed, date_str)]

\* the pieces callers compose their SQL of: plain text, a limit clause, text
\* that holds the letters of LIMIT without being a clause, the macro as
\* written with its arguments, and text that begins like the macro
SqlPieces ==
    {[kind |-> "text",  text |-> "SELECT a FROM '", feed |-> None, date |-> None],
     [kind |-> "text",  text |-> "x.parquet';\n", feed |-> None, date |-> None],
     [kind |-> "limit", text |-> " limit 5", feed |-> None, date |-> None],
     [kind |-> "word",  text |-> " -- unlimited", feed |-> None, date |-> None],
     [kind |-> "macro", text |-> "$FEED_PATH( kalshi , 2025-01-14 )",
      feed |-> "kalshi", date |-> "2025-01-14"],
     [kind |-> "macro", text |-> "$FEED_PATH(kraken-futures)",
      feed |-> "kraken-futures", date |-> None],
     [kind |-> "text",  text |-> "$FEED_PATH(KALSHI", feed |-> None, date |-> None]}

\* the SQL texts of up to MaxPieces pieces
SqlInputs == SeqsUpTo(SqlPieces, MaxPieces)

\* the text a sequence of pieces spells
RECURSIVE JoinText(_)
JoinText(pieces) ==
    IF pieces = << >> THEN "" ELSE Head(pieces).text \o JoinText(Tail(pieces))

\* query_raw(cfg, sql, feed, date_str) up to the execution: the date
\* defaulted, the macros expanded, the row limit enforced
PrepareRaw ==
    /\ pure.op = "sql"
    /\ ~pure.done
    /\ \E date_str \in {IF pure.date_in # None THEN pure.date_in ELSE today_str} :
          pure' = [pure EXCEPT !.done = TRUE,
                               !.date_str = date_str,
                               !.expanded = ExpandFeedPath(JoinText(pure.pieces), date_str),
                               !.executed = raw_sql(JoinText(pure.pieces), date_str)]

----------------------------------------------------------------------------
(* tools.py: the fallback of one hour's object, by requests that share the
   temporary directory *)

Requests == 1..MaxRequests

NoDisk == [file |-> "absent", staged |-> FALSE, copies |-> 0]

\* disk.file: what os.path.exists(local) and the engine see at the path local
\*   "absent", "partial" (some of the object's bytes), "complete"
\* disk.staged: whether gsutil cp writes elsewhere and moves the finished copy
\*   to local, or writes into local as it goes
\* disk.copies: the gsutil cp runs started
Copying(p) == reqs[p].pc = "copying"

\* if not os.path.exists(local): the request goes on to download, or skips it
CheckCache(p) ==
    /\ reqs[p].pc = "check"
    /\ reqs' = [reqs EXCEPT ![p].pc = IF disk.file = "absent" THEN "download"
                                      ELSE "recheck"]
    /\ UNCHANGED disk

\* _gsutil_download(gs_path_gs, local): gsutil cp starts
BeginCopy(p) ==
    /\ reqs[p].pc = "download"
    /\ reqs' = [reqs EXCEPT ![p].pc = "copying"]
    /\ disk' = [disk EXCEPT !.file = IF disk.staged THEN @ ELSE "partial",
                            !.copies = @ + 1]

\* gsutil cp ends with exit status 0: the copy is whole unless another run
\* is still writing into the same path
EndCopy(p) ==
    /\ Copying(p)
    /\ reqs' = [reqs EXCEPT ![p].pc = "recheck"]
    /\ disk' = [disk EXCEPT !.file =
                    IF disk.staged \/ \A q \in Requests \ {p} : ~Copying(q)
                    THEN "complete" ELSE "partial"]

\* if not os.path.exists(local): return []
Recheck(p) ==
    /\ reqs[p].pc = "recheck"
    /\ reqs' = [reqs EXCEPT ![p] = IF disk.file = "absent"
                                   THEN [pc |-> "done", ret |-> "empty"]
                                   ELSE [pc |-> "execute", ret |-> "none"]]
    /\ UNCHANGED disk

\* conn.execute(sql) over local: the rows of the object, or what the engine
\* makes of a file that is not whole (it raises, or returns the rows it finds)
Execute(p) ==
    /\ reqs[p].pc = "execute"
    /\ \E ret \in IF disk.file = "complete" THEN {"rows"} ELSE {"raised", "some_rows"} :
          reqs' = [reqs EXCEPT ![p] = [pc |-> "done", ret |-> ret]]
    /\ UNCHANGED disk

\* the caller repeats its query
Repeat(p) ==
    /\ reqs[p].pc = "done"
    /\ reqs' = [reqs EXCEPT ![p] = [pc |-> "check", ret |-> "none"]]
    /\ UNCHANGED disk

----------------------------------------------------------------------------
(* server.py: tool calls that resolve the credential, in one process *)

\* a call not yet handled
Pending == [pc |-> "pending", ret |-> "", acquired |-> NoTime, at |-> 0]

\* handlers that run side by side, as threads would
LoopBusy_never(p) == FALSE

\* handle_call_tool calls _run_tool without awaiting anything: the event loop
\* runs no other handler until the one it started has returned
LoopBusy(p) == \E q \in DOMAIN reqs \ {p} : reqs[q].pc \in {"resolve", "helper"}

\* the event loop starts the handler of a call
handle_call_tool(p) ==
    /\ reqs[p].pc = "pending"
    /\ ~LoopBusy(p)
    /\ reqs' = [reqs EXCEPT ![p].pc = "resolve"]
    /\ UNCHANGED cvars

\* _get_gcs_token() up to the helper: a cached token less than 30 minutes old
\* is returned, otherwise the helper is started
CheckToken(p) ==
    /\ reqs[p].pc = "resolve"
    /\ reqs' = [reqs EXCEPT ![p] =
                  IF get_gcs_token(gcs_token, gcs_token_time, now, "token").invoked
                  THEN [@ EXCEPT !.pc = "helper"]
                  ELSE [pc |-> "done", ret |-> gcs_token,
                        acquired |-> gcs_token_time, at |-> now]]
    /\ UNCHANGED cvars

\* subprocess.run returns or raises: the token is cached with the time and
\* returned, or None is
HelperReturns(p) ==
    /\ reqs[p].pc = "helper"
    /\ \E helper \in HelperOutcomes :
          IF helper = "token"
          THEN /\ gcs_token' = FreshToken
               /\ gcs_token_time' = now
               /\ fetched' = now
               /\ reqs' = [reqs EXCEPT ![p] = [pc |-> "done", ret |-> FreshToken,
                                               acquired |-> now, at |-> now]]
          ELSE /\ UNCHANGED <<gcs_token, gcs_token_time, fetched>>
               /\ reqs' = [reqs EXCEPT ![p] = [pc |-> "done", ret |-> "",
                                               acquired |-> NoTime, at |-> now]]
    /\ UNCHANGED <<now, clast>>

\* the client sends its next call
NextCall(p) ==
    /\ reqs[p].pc = "done"
    /\ reqs' = [reqs EXCEPT ![p] = Pending]
    /\ UNCHANGED cvars

----------------------------------------------------------------------------
(* gcs.py, tools.py: the engine sessions of requests under way *)

\* a session: the request it was opened for, how often duckdb.connect() handed
\* it out, the credential registered in it, the requests that executed
\* statements in it, whether it is open
NoCredential == [auth |-> "none", token |-> ""]

NewSession(p) == [owner |-> p, uses |-> 1, cred |-> NoCredential, by |-> {}, open |-> TRUE]

\* a request that has not called get_connection
Idle == [pc |-> "idle", conn |-> 0, installed |-> NoCredential, seen |-> NoCredential]

\* a provisioner that keeps one session and hands it to every caller
connect_pooled(ss) == 1

\* duckdb.connect(): a new in-memory database, the session behind no other
connect(ss) == Len(ss) + 1

\* the credential a set-up leaves registered in its session
Registered(c) ==
    [auth |-> c.auth, token |-> IF c.auth \in {"secret", "headers"} THEN c.tok ELSE ""]

\* get_connection, its first statement: conn = duckdb.connect()
Connect(p) ==
    /\ reqs[p].pc = "idle"
    /\ Len(sessions) < MaxSessions
    /\ \E id \in {connect(sessions)} :
          /\ sessions' = IF id \in DOMAIN sessions
                         THEN [sessions EXCEPT ![id].uses = @ + 1, ![id].open = TRUE]
                         ELSE Append(sessions, NewSession(p))
          /\ reqs' = [reqs EXCEPT ![p] = [Idle EXCEPT !.pc = "setup", !.conn = id]]
    /\ UNCHANGED cvars

\* get_connection, its second statement: _setup_duckdb_gcs(conn), which
\* executes its statements on conn and reads and writes the token cache
SetUp(p) ==
    /\ reqs[p].pc = "setup"
    /\ \E se \in SetupEnvs :
       \E c \in {setup_duckdb_gcs(gcs_token, gcs_token_time, now, se)} :
          /\ SetupEnvOk(se)
          /\ (c.resolved /\ ~c.invoked) => se.helper = "token"
          /\ gcs_token' = c.tok
          /\ gcs_token_time' = c.time
          /\ fetched' = IF c.invoked /\ se.helper = "token" THEN now ELSE fetched
          /\ sessions' = [sessions EXCEPT ![reqs[p].conn].cred = Registered(c),
                                          ![reqs[p].conn].by = @ \cup {p}]
          /\ reqs' = [reqs EXCEPT ![p].pc = IF c.raised THEN "raised" ELSE "query",
                                  ![p].installed = Registered(c)]
    /\ UNCHANGED <<now, clast>>

\* the operation executes on conn with the credential registered there, and
\* closes it
RunQuery(p) ==
    /\ reqs[p].pc = "query"
    /\ sessions' = [sessions EXCEPT ![reqs[p].conn].by = @ \cup {p},
                                    ![reqs[p].conn].open = FALSE]
    /\ reqs' = [reqs EXCEPT ![p].pc = "done", ![p].seen = sessions[reqs[p].conn].cred]
    /\ UNCHANGED cvars

\* the caller sends its next request
NextRequest(p) ==
    /\ reqs[p].pc \in {"done", "raised"}
    /\ Len(sessions) < MaxSessions
    /\ reqs' = [reqs EXCEPT ![p].pc = "idle"]
    /\ UNCHANGED <<cvars, sessions>>

----------------------------------------------------------------------------
(* tools.py: the freshness entry of one listing *)

\* the object names a newest partition may list
FreshNames == {"ticker_1400.parquet", "trade_1500.parquet", "trade_0900.jsonl.gz",
               "trade_2300.csv"}

\* the entries the feed's directory may list
FreshDirs == {"2025-01-15/", "2025-01-14/", "2025-02-30/", "staging/"}

\* the listings of the feed's directory that hold a date
DirListings ==
    {d \in SeqsUpTo(FreshDirs, MaxFiles) :
        \E n \in 1..Len(d) : DateShaped(LastSegment(d[n]))}

\* the seconds since the midnight Today begins with at which the check is made
FreshClocks == {14 * 3600, 16 * 3600, 16 * 3600 + 120}

\* the lines gsutil ls prints for the names
ListedAs(feed, date_str, names) ==
    [n \in 1..Len(names) |-> gcs_gs_path(feed, date_str) \o names[n]]


\* the entries a partition may list: objects of the configured types and
\* others, a sub-directory
MatchNames ==
    {"trade_1400.parquet", "trade_.parquet", "trade_1400.jsonl.gz", "xtrade_1400.parquet",
     "ticker_1400.parquet", "last_trade_price_1400.parquet", "best_bid_ask_1400.parquet",
     "book_1400.parquet", "price_change_1400.parquet", "trade_old/"}

\* the configured (feed, file type) pairs
ConfiguredTypes ==
    UNION {{<<f, feed_types_get(f)[i]>> : i \in 1..Len(feed_types_get(f))} : f \in KnownFeeds}

\* the glob branch's filter over the listing of the feed's partition, beside
\* the objects of that listing the remote path of the direct query matches
SelectMatching ==
    /\ pure.op = "match"
    /\ ~pure.done
    /\ \E files \in {ListedAs(pure.feed, Today, pure.names)} :
       \E kept \in {matching_files(files, pure.file_type)} :
          pure' = [pure EXCEPT
                     !.done = TRUE,
                     !.kept = kept,
                     !.globbed =
                        {files[n] : n \in {k \in 1..Len(files) :
                            GlobMatch(Replace(files[k], "gs://", "s3://"),
                                      gcs_parquet_path(pure.feed, Today,
                                                       pure.file_type, None))}}]

\* basenames a partition may hold beside the hour's object
OtherBasenames ==
    {"trade_1400.parquet", "ticker_1400.parquet", "trade_1500.parquet",
     "2025-01-15_trade_1400.parquet", "best_bid_ask_1400.parquet"}

\* both branches of the dispatcher's fallback for one hour's object: the
\* (remote, local) pairs the glob branch downloads of a listing that holds
\* the object, the pair the hour branch downloads, and the cache name of
\* another feed's, date's or basename's file
NameCacheFiles ==
    /\ pure.op = "names"
    /\ ~pure.done
    /\ \E fname \in {pure.file_type \o "_" \o pure.hour \o ".parquet"} :
       \E files \in {ListedAs(pure.feed, pure.date_str, <<pure.base2, fname>>)} :
       \E matching \in {matching_files(files, pure.file_type)} :
          pure' = [pure EXCEPT
                     !.done = TRUE,
                     !.fname = fname,
                     !.glob = {<<matching[i],
                                 LocalPath(pure.feed, pure.date_str,
                                           LastSegment(matching[i]))>> :
                                   i \in 1..Len(matching)},
                     !.hourly = <<Replace(gcs_parquet_path(pure.feed, pure.date_str,
                                                           pure.file_type, pure.hour),
                                          "s3://", "gs://"),
                                  LocalPath(pure.feed, pure.date_str, fname)>>,
                     !.other = LocalPath(pure.feed2, pure.date2, pure.base2)]

\* check_freshness for one feed from the listing of its directory on:
\* the entry it appends, and the age as it is rendered
ProbeListing ==
    /\ pure.op = "freshness"
    /\ ~pure.done
    /\ \E dates \in {dates_of_entries(ListedAs(pure.feed, None, pure.dirs), 3)} :
       \E files \in {ListedAs(pure.feed, dates[1], pure.names)} :
       \E entry \in {FreshEntry(pure.feed,
                                ProbeFiles(dates[1], ParquetFiles(files),
                                           JsonlFiles(files)),
                                pure.clock)} :
          pure' = [pure EXCEPT !.done = TRUE, !.newest_date = dates[1],
                               !.entry = entry,
                               !.age_hours = round_age_hours(entry.age)]

----------------------------------------------------------------------------
(* tools.py: what the price template selects *)

\* the rows of the files read: key is the column the template partitions by
\* (market_ticker, product_id, asset_id), time the one it orders the partition
\* by (ts, _received_at), rank the one it orders the result by (volume, spread)
PriceRows == [key : {"BTC", "ETH"}, time : {1, 2}, rank : {10, 20}]

PriceInputs == {R \in SUBSET PriceRows : Cardinality(R) <= MaxRows}

\* a window ordered by the time ascending
FirstOfPartition(rows, r) == \A q \in rows : q.key = r.key => r.time <= q.time

\* ROW_NUMBER() OVER (PARTITION BY key ORDER BY time DESC) = 1 can hold of r
TopOfPartition(rows, r) == \A q \in rows : q.key = r.key => q.time <= r.time

\* the selections QUALIFY can make: one top row of every partition (rows of
\* equal time are numbered in either order)
Snapshots(rows) ==
    {S \in SUBSET {r \in rows : TopOfPartition(rows, r)} :
        \A r \in rows : Cardinality({q \in S : q.key = r.key}) = 1}

\* ORDER BY volume DESC, and for polymarket ORDER BY spread ASC
InOrder(feed, a, b) == IF feed = "polymarket" THEN a.rank <= b.rank ELSE a.rank >= b.rank

\* the orders the result can come in
Orderings(feed, S) ==
    {out \in [1..Cardinality(S) -> S] :
        /\ \A i, j \in DOMAIN out : i # j => out[i] # out[j]
        /\ \A i, j \in DOMAIN out : i < j => InOrder(feed, out[i], out[j])}

\* the execution of query_prices' template over the rows
SelectPrices ==
    /\ pure.op = "prices"
    /\ ~pure.done
    /\ \E S \in Snapshots(pure.rows) :
       \E out \in Orderings(pure.feed, S) :
          pure' = [pure EXCEPT !.done = TRUE, !.out = out]

----------------------------------------------------------------------------
(* tools.py: what the trade template computes *)

\* the rows of the files read: key is the ticker column of the feed, price
\* and qty its price and quantity columns
TradeRows == [key : {"BTC", "ETH"}, price : {100, 150, 200}, qty : {1, 2}]

TradeInputs == SeqsUpTo(TradeRows, MaxRows)

\* LIMIT {limit}: the default and a small one
TradeLimits == {1, 20}

RECURSIVE SumOf(_, _)
SumOf(rows, col) ==
    IF rows = << >> THEN 0 ELSE Head(rows)[col] + SumOf(Tail(rows), col)

MinPrice(rows) == CHOOSE x \in {rows[i].price : i \in DOMAIN rows} :
                      \A i \in DOMAIN rows : x <= rows[i].price

MaxPrice(rows) == CHOOSE x \in {rows[i].price : i \in DOMAIN rows} :
                      \A i \in DOMAIN rows : x >= rows[i].price

\* a template that divides no price
price_divisor_one(feed) == 1

\* the divisor the template puts under the price aggregates: / 100.0 for
\* kalshi, whose prices are in cents, none for the other feeds
price_divisor(feed) == IF feed = "kalshi" THEN 100 ELSE 1

\* the result row of one group; a price is the fraction num / den; the
\* polymarket template selects no total_volume
TradeGroup(feed, g) ==
    IF feed = "polymarket"
    THEN [ticker |-> g[1].key,
          trade_count |-> Len(g),
          min_price |-> [num |-> MinPrice(g), den |-> price_divisor(feed)],
          max_price |-> [num |-> MaxPrice(g), den |-> price_divisor(feed)],
          avg_price |-> [num |-> SumOf(g, "price"), den |-> Len(g) * price_divisor(feed)]]
    ELSE [ticker |-> g[1].key,
          trade_count |-> Len(g),
          total_volume |-> SumOf(g, "qty"),
          min_price |-> [num |-> MinPrice(g), den |-> price_divisor(feed)],
          max_price |-> [num |-> MaxPrice(g), den |-> price_divisor(feed)],
          avg_price |-> [num |-> SumOf(g, "price"), den |-> Len(g) * price_divisor(feed)]]

\* GROUP BY the ticker column
TradeGroups(feed, rows) ==
    {TradeGroup(feed, SelectSeq(rows, LAMBDA r : r.key = k)) :
        k \in {rows[i].key : i \in DOMAIN rows}}

\* a template that orders by trade_count ascending
TradeOrderings_ascending(G) ==
    {out \in [1..Cardinality(G) -> G] :
        /\ \A i, j \in DOMAIN out : i # j => out[i] # out[j]
        /\ \A i, j \in DOMAIN out : i < j => out[i].trade_count <= out[j].trade_count}

\* ORDER BY trade_count DESC: the orders the groups can come in
TradeOrderings(G) ==
    {out \in [1..Cardinality(G) -> G] :
        /\ \A i, j \in DOMAIN out : i # j => out[i] # out[j]
        /\ \A i, j \in DOMAIN out : i < j => out[i].trade_count >= out[j].trade_count}

\* the execution of query_trades' template over the rows
AggregateTrades ==
    /\ pure.op = "trades"
    /\ ~pure.done
    /\ \E out \in TradeOrderings(TradeGroups(pure.feed, pure.rows)) :
          pure' = [pure EXCEPT !.done = TRUE,
                               !.out = IF Len(out) <= pure.limit THEN out
                                       ELSE SubSeq(out, 1, pure.limit)]

----------------------------------------------------------------------------
(* The environment *)

\* an object of the bucket is overwritten with new content
RemotePut ==
    /\ changes < MaxRemoteChanges
    /\ \E k \in KeySet :
          /\ remote[k] < MaxVer
          /\ remote' = [remote EXCEPT ![k] = @ + 1]
    /\ changes' = changes + 1
    /\ UNCHANGED <<tmpfiles, dlOk, last>>

----------------------------------------------------------------------------
InitRest ==
    /\ api_url \in {"", "http://test-api:8080"}
    /\ remote = [k \in KeySet |-> 1]
    /\ changes = 0
    /\ tmpfiles = << >>
    /\ dlOk = << >>
    /\ last = NoCall
    /\ gcs_token = ""
    /\ gcs_token_time = NoTime
    /\ now = StartClock
    /\ fetched = NoTime
    /\ clast = NoCred
    /\ market_cache = << >>
    /\ answered = << >>
    /\ apilast = NoApi

\* no request under way
NoRequests == reqs = << >> /\ disk = NoDisk /\ sessions = << >>

Init == InitRest /\ pure = NoPure /\ NoRequests

\* a caller's SQL text and date argument, not yet passed to query_raw
InitRaw ==
    /\ InitRest
    /\ NoRequests
    /\ pure \in [op : {"sql"}, pieces : SqlInputs, date_in : {None, "2025-01-14"},
                 done : {FALSE}, date_str : {None}, expanded : {""}, executed : {""}]

\* the query layer
Next ==
    \/ QueryTrades /\ UNCHANGED <<api_url, remote, changes, cvars, avars, pure, rvars>>
    \/ QueryPrices /\ UNCHANGED <<api_url, remote, changes, cvars, avars, pure, rvars>>
    \/ QueryRaw /\ UNCHANGED <<api_url, remote, changes, cvars, avars, pure, rvars>>
    \/ CheckFreshness /\ UNCHANGED <<api_url, remote, changes, cvars, avars, pure, rvars>>
    \/ ListFeeds /\ UNCHANGED <<api_url, remote, changes, cvars, avars, pure, rvars>>
    \/ RemotePut /\ UNCHANGED <<api_url, cvars, avars, pure, rvars>>

Spec == Init /\ [][Next]_vars

\* the credential cache under the passage of time
NextCred ==
    \/ ResolveToken /\ UNCHANGED <<api_url, qvars, avars, pure, rvars>>
    \/ OpenSession /\ UNCHANGED <<api_url, qvars, avars, pure, rvars>>
    \/ Tick /\ UNCHANGED <<api_url, qvars, avars, pure, rvars>>

SpecCred == Init /\ [][NextCred]_vars

\* the REST client and its market cache
NextApi ==
    \/ ApiGet /\ UNCHANGED <<api_url, qvars, cvars, pure, rvars>>
    \/ ApiPost /\ UNCHANGED <<api_url, qvars, cvars, pure, rvars>>
    \/ GetCatalog /\ UNCHANGED <<api_url, qvars, cvars, pure, rvars>>
    \/ LookupMarket /\ UNCHANGED <<api_url, qvars, cvars, pure, rvars>>

SpecApi == Init /\ [][NextApi]_vars

\* the path builder
NextPath ==
    \/ BuildParquetPath /\ UNCHANGED <<api_url, qvars, cvars, avars, rvars>>
    \/ BuildGsPath /\ UNCHANGED <<api_url, qvars, cvars, avars, rvars>>

SpecPath == Init /\ [][NextPath]_vars

\* requests that reached the fallback for the same object, the cache empty
InitRace ==
    /\ InitRest
    /\ pure = NoPure
    /\ reqs = [p \in Requests |-> [pc |-> "check", ret |-> "none"]]
    /\ disk \in [file : {"absent"}, staged : BOOLEAN, copies : {0}]
    /\ sessions = << >>

NextRace ==
    \E p \in Requests :
        \/ CheckCache(p) /\ UNCHANGED <<api_url, qvars, cvars, avars, pure, sessions>>
        \/ BeginCopy(p) /\ UNCHANGED <<api_url, qvars, cvars, avars, pure, sessions>>
        \/ EndCopy(p) /\ UNCHANGED <<api_url, qvars, cvars, avars, pure, sessions>>
        \/ Recheck(p) /\ UNCHANGED <<api_url, qvars, cvars, avars, pure, sessions>>
        \/ Execute(p) /\ UNCHANGED <<api_url, qvars, cvars, avars, pure, sessions>>
        \/ Repeat(p) /\ UNCHANGED <<api_url, qvars, cvars, avars, pure, sessions>>

SpecRace == InitRace /\ [][NextRace]_vars

\* calls received by one server process
InitServe ==
    /\ InitRest
    /\ pure = NoPure
    /\ reqs = [p \in Requests |-> Pending]
    /\ disk = NoDisk
    /\ sessions = << >>

NextServe ==
    \/ \E p \in Requests :
          \/ handle_call_tool(p) /\ UNCHANGED <<api_url, qvars, avars, pure, disk, sessions>>
          \/ CheckToken(p) /\ UNCHANGED <<api_url, qvars, avars, pure, disk, sessions>>
          \/ HelperReturns(p) /\ UNCHANGED <<api_url, qvars, avars, pure, disk, sessions>>
          \/ NextCall(p) /\ UNCHANGED <<api_url, qvars, avars, pure, disk, sessions>>
    \/ Tick /\ UNCHANGED <<api_url, qvars, avars, pure, rvars>>

SpecServe == InitServe /\ [][NextServe]_vars

\* a feed's newest partition and the time of the check
InitFresh ==
    /\ InitRest
    /\ NoRequests
    /\ pure \in [op : {"freshness"}, feed : KnownFeeds,
                 dirs : DirListings, newest_date : {None},
                 names : SeqsUpTo(FreshNames, MaxFiles), clock : FreshClocks,
                 done : {FALSE}, entry : {<< >>}, age_hours : {0}]

NextFresh == ProbeListing /\ UNCHANGED <<api_url, qvars, cvars, avars, rvars>>

SpecFresh == InitFresh /\ [][NextFresh]_vars

\* the rows a price query finds in the files it reads
InitPrices ==
    /\ InitRest
    /\ NoRequests
    /\ pure \in [op : {"prices"}, feed : KnownFeeds, rows : PriceInputs,
                 done : {FALSE}, out : {<< >>}]

NextPrices == SelectPrices /\ UNCHANGED <<api_url, qvars, cvars, avars, rvars>>

SpecPrices == InitPrices /\ [][NextPrices]_vars

\* the rows a trade query finds in the files it reads
InitTrades ==
    /\ InitRest
    /\ NoRequests
    /\ pure \in [op : {"trades"}, feed : KnownFeeds, rows : TradeInputs,
                 limit : TradeLimits, done : {FALSE}, out : {<< >>}]

NextTrades == AggregateTrades /\ UNCHANGED <<api_url, qvars, cvars, avars, rvars>>

SpecTrades == InitTrades /\ [][NextTrades]_vars

\* the fee lookups
NextFees ==
    \/ GetFees /\ UNCHANGED <<api_url, qvars, cvars, pure, rvars>>
    \/ ApiGet /\ UNCHANGED <<api_url, qvars, cvars, pure, rvars>>

SpecFees == Init /\ [][NextFees]_vars

\* a listing of a feed's partition and a file type of the feed
InitMatch ==
    /\ InitRest
    /\ NoRequests
    /\ pure \in {[op |-> "match", feed |-> c[1], file_type |-> c[2], names |-> n,
                   done |-> FALSE, kept |-> << >>, globbed |-> {}] :
                     c \in ConfiguredTypes, n \in SeqsUpTo(MatchNames, MaxFiles)}

\* an hour's object of a feed's partition, and another (feed, date, basename)
InitNames ==
    /\ InitRest
    /\ NoRequests
    /\ pure \in {[op |-> "names", feed |-> c[1], file_type |-> c[2], date_str |-> d,
                   hour |-> h, feed2 |-> f2, date2 |-> d2, base2 |-> b2,
                   done |-> FALSE, fname |-> None, glob |-> {},
                   hourly |-> <<None, None>>, other |-> None] :
                     c \in ConfiguredTypes, d \in PathDates,
                     h \in PathHours \ {None}, f2 \in KnownFeeds,
                     d2 \in PathDates, b2 \in OtherBasenames}

NextNames == NameCacheFiles /\ UNCHANGED <<api_url, qvars, cvars, avars, rvars>>

SpecNames == InitNames /\ [][NextNames]_vars

NextMatch == SelectMatching /\ UNCHANGED <<api_url, qvars, cvars, avars, rvars>>

SpecMatch == InitMatch /\ [][NextMatch]_vars

\* requests that open their sessions side by side
InitSession ==
    /\ InitRest
    /\ pure = NoPure
    /\ reqs = [p \in Requests |-> Idle]
    /\ disk = NoDisk
    /\ sessions = << >>

NextSession ==
    \E p \in Requests :
        \/ Connect(p) /\ UNCHANGED <<api_url, qvars, avars, pure, disk>>
        \/ SetUp(p) /\ UNCHANGED <<api_url, qvars, avars, pure, disk>>
        \/ RunQuery(p) /\ UNCHANGED <<api_url, qvars, avars, pure, disk>>
        \/ NextRequest(p) /\ UNCHANGED <<api_url, qvars, avars, pure, disk>>

SpecSession == InitSession /\ [][NextSession]_vars

\* the dispatcher called directly
NextDispatch == Dispatch /\ UNCHANGED <<api_url, remote, changes, last, cvars, avars, rvars>>

SpecDispatch == Init /\ [][NextDispatch]_vars

\* the text processing of the freeform query
NextRaw == PrepareRaw /\ UNCHANGED <<api_url, qvars, cvars, avars, rvars>>

SpecRaw == InitRaw /\ [][NextRaw]_vars

----------------------------------------------------------------------------
(* Properties: the dispatcher's fallback *)

\* the plan of the last dispatched call (an omitted date defaults to Today)
LastPlan == PlanTable[<<last.feed, Today, last.d.file_type, last.hour>>]

\* the last call fell back after a failed direct execution, and exactly one
\* remote object matches its path
OneObjectFallback ==
    /\ last.d.called
    /\ last.d.fallback
    /\ Cardinality(LastPlan.direct) = 1
    /\ last.hour = None => Len(LastPlan.matching) = 1

\* that object, and the cache file the dispatcher keeps it in
LastObject == CHOOSE u \in LastPlan.direct : TRUE
LastLocal == IF last.hour = None THEN LastPlan.locals[1] ELSE LastPlan.local

DispatchPlan == PlanTable[<<pure.feed, Today, pure.file_type, pure.hour>>]

\* a step of the fallback was taken: a listing, a download attempt or a second
\* execution
FallbackStepTaken == pure.r.ls > 0 \/ pure.r.tried # << >> \/ pure.r.second

\* C22: the fallback is entered exactly when the direct execution fails with
\* an engine I/O or catalog error; when it succeeds its rows are returned with
\* no listing, download or cache access; any other exception leaves the
\* dispatcher uncaught and no fallback step runs
C22_FallbackOnEngineIoOrCatalogErrorOnly ==
    pure.op = "dispatch" =>
        /\ FallbackStepTaken <=> pure.e.direct \in {"io", "catalog"}
        /\ pure.e.direct = "ok" =>
              /\ ~pure.r.raised
              /\ pure.r.rows = DirectData(remote, DispatchPlan)
              /\ tmpfiles = pure.pre
              /\ pure.r.paths = << >>
        /\ pure.e.direct = "other" =>
              /\ pure.r.raised
              /\ tmpfiles = pure.pre

\* C22 witness: a direct execution that fails with a catalog error is followed
\* by the listing, two downloads and the second execution
C22_CatalogErrorFallsBack ==
    /\ pure.op = "dispatch"
    /\ pure.e.direct = "catalog"
    /\ pure.hour = None
    /\ pure.r.ls = 1
    /\ Len(pure.r.tried) = 2
    /\ pure.r.second
    /\ ~pure.r.raised

\* C23: when the direct execution fails in the glob case and no listed object
\* matches, or no matching object is in the local cache after the download
\* attempts, the dispatcher runs no second query and returns no rows, and
\* query_trades and query_prices return their envelope with count = 0 and no
\* error field
C23_ExhaustedFallbackIsEmptyEnvelope ==
    (/\ last.op \in {"query_trades", "query_prices"}
     /\ last.d.called /\ last.d.fallback /\ last.hour = None
     /\ \A i \in 1..Len(LastPlan.matching) : LastPlan.locals[i] \notin DOMAIN tmpfiles) =>
        /\ ~last.d.second
        /\ last.d.rows = {}
        /\ last.outcome = "returned"
        /\ last.payload.kind \in {"trades", "prices"}
        /\ last.payload.rows = {}
        /\ "error" \notin DOMAIN last.payload

\* C23 witness: query_trades for kalshi falls back, lists two trade objects,
\* fails to download either, and returns the empty envelope
C23_BothDownloadsFailed ==
    /\ last.op = "query_trades"
    /\ last.feed = "kalshi"
    /\ last.d.fallback
    /\ Len(last.d.tried) = 2
    /\ tmpfiles = << >>
    /\ last.outcome = "returned"
    /\ last.payload.rows = {}

\* the matching objects of the call whose download was attempted and failed
FailedDownloads ==
    {i \in 1..Len(DispatchPlan.matching) :
        /\ \E k \in 1..Len(pure.r.tried) : pure.r.tried[k] = DispatchPlan.locals[i]
        /\ ~gsutil_download_ok(remote, DispatchPlan.matching[i], pure.e.failing)}

\* C24 as stated: the paths the second query of the glob fallback runs on are
\* those of the matching objects that are cached, one each, in listing order,
\* and an object whose download failed contributes none
C24_AsStated ==
    (pure.op = "dispatch" /\ pure.hour = None /\ pure.r.second) =>
        /\ pure.r.paths = SelectSeq(DispatchPlan.locals,
                                    LAMBDA l : l \in DOMAIN pure.r.files)
        /\ \A i \in FailedDownloads :
              \A k \in 1..Len(pure.r.paths) : pure.r.paths[k] # DispatchPlan.locals[i]

\* C24 where the failed downloads left nothing behind: the paths are those of
\* the cached matching objects in listing order, none of a failed download
C24_PathsOfCachedFilesInListingOrder ==
    (pure.op = "dispatch" /\ pure.hour = None /\ pure.r.second) =>
        /\ pure.r.paths = SelectSeq(DispatchPlan.locals,
                                    LAMBDA l : l \in DOMAIN pure.r.files)
        /\ pure.e.partial = {} =>
              \A i \in FailedDownloads :
                 \A k \in 1..Len(pure.r.paths) : pure.r.paths[k] # DispatchPlan.locals[i]

\* C25: with hour set and the direct execution failed, the dispatcher
\* attempts the download exactly when the local cache file is absent; if the
\* file is still absent afterwards it returns no rows and runs no second
\* query; otherwise it runs the template once, on the single local path
C25_HourFallbackDownloadsOnlyIfAbsent ==
    (pure.op = "dispatch" /\ pure.hour # None /\ pure.r.fallback) =>
        /\ pure.r.ls = 0
        /\ pure.r.tried = IF DispatchPlan.local \in DOMAIN pure.pre
                          THEN << >> ELSE <<DispatchPlan.local>>
        /\ \A p \in DOMAIN pure.pre :
              p \in DOMAIN pure.r.files /\ pure.r.files[p] = pure.pre[p]
        /\ DispatchPlan.local \notin DOMAIN pure.r.files =>
              ~pure.r.raised /\ pure.r.rows = {} /\ ~pure.r.second
        /\ DispatchPlan.local \in DOMAIN pure.r.files =>
              pure.r.second /\ pure.r.paths = <<DispatchPlan.local>>

\* C25 witness: the hour's file is cached, the direct execution fails again,
\* and the dispatcher reads the cached file without a download
C25_CachedHourReadWithoutDownload ==
    /\ pure.op = "dispatch"
    /\ pure.hour # None
    /\ pure.r.fallback
    /\ DispatchPlan.local \in DOMAIN pure.pre
    /\ pure.r.tried = << >>
    /\ pure.r.second
    /\ pure.r.paths = <<DispatchPlan.local>>

\* C28: no operation deletes or overwrites an existing local cache file, and
\* a request for an object whose cache file exists attempts no download of it
\* and, where its second query passes, reads the file as it is, whatever the
\* remote object has become
C28_CacheFilesAreNeverInvalidated ==
    [][/\ \A p \in DOMAIN tmpfiles :
             /\ p \in DOMAIN tmpfiles'
             /\ tmpfiles'[p] = tmpfiles[p]
             /\ Count(dlOk', p) = Count(dlOk, p)
       /\ (changes' = changes /\ last'.d.called) =>
             /\ \A k \in 1..Len(last'.d.tried) : last'.d.tried[k] \notin DOMAIN tmpfiles
             /\ (last'.d.second /\ last'.outcome = "returned") =>
                   \A p \in DOMAIN tmpfiles :
                      (\E k \in 1..Len(PlanTable[<<last'.feed, Today, last'.d.file_type,
                                                    last'.hour>>].locals) :
                          /\ last'.hour = None
                          /\ PlanTable[<<last'.feed, Today, last'.d.file_type,
                                         last'.hour>>].locals[k] = p)
                      => tmpfiles[p] \in last'.d.rows]_vars

\* C28 witness: the remote object was overwritten after it was cached, and a
\* later fallback read the cached copy without a download
C28_StaleCopyServed ==
    /\ last.d.called /\ last.d.second
    /\ last.d.tried = << >>
    /\ \E p \in DOMAIN tmpfiles :
          /\ tmpfiles[p][2] < RemoteVer(remote, tmpfiles[p][1])
          /\ tmpfiles[p] \in last.d.rows

\* C29 as stated: when the newest partition's filenames yield no hour token,
\* or its date cannot be parsed, check_freshness reports the age as unknown
\* and stale = false
C29_AsStated ==
    (/\ pure.op = "freshness" /\ pure.done
     /\ \/ pure.entry.newest_hour = None
        \/ ~ParseDate(pure.newest_date).ok) =>
        /\ ~pure.entry.age_known
        /\ ~pure.entry.stale
        /\ pure.entry.status = "fresh"

\* C29, the date alone: a newest date that cannot be parsed gives an unknown
\* age and stale = false
C29_UnparsedDateIsUnknownAge ==
    (pure.op = "freshness" /\ pure.done /\ ~ParseDate(pure.newest_date).ok) =>
        /\ ~pure.entry.age_known
        /\ ~pure.entry.stale
        /\ pure.entry.status = "fresh"

\* the feeds the last check_freshness call went through
CheckedFeeds == IF last.feed # None THEN <<last.feed>> ELSE FeedKeys

\* C30: for each checked feed whose date listing is empty, the listing
\* utility failing included, check_freshness reports status no_data with
\* stale = true and lists no objects of that feed, and every feed of the call
\* has its entry
C30_EmptyDateListingIsNoData ==
    last.op = "check_freshness" =>
        /\ last.outcome = "returned"
        /\ Len(last.payload.feeds) = Len(CheckedFeeds)
        /\ \A i \in 1..Len(CheckedFeeds) :
              /\ last.payload.feeds[i].feed = CheckedFeeds[i]
              /\ (\/ last.probe[i] = "dates_fail"
                  \/ Len(list_gcs_dates(CheckedFeeds[i], 3, "ok")) = 0) =>
                    /\ last.payload.feeds[i].status = "no_data"
                    /\ last.payload.feeds[i].stale
                    /\ last.payload.feeds[i].newest_date = None
              /\ last.payload.feeds[i].status # "no_data" =>
                    last.payload.feeds[i].status \in {"fresh", "stale"}
        /\ last.io.ls =
              SumSeq([i \in 1..Len(CheckedFeeds) |->
                         IF last.payload.feeds[i].status = "no_data" THEN 1 ELSE 2])

\* C30 witness: in a call over all feeds the date listing of the first fails
\* and another feed is still reported with its newest date
C30_OneListingFailsOthersReported ==
    /\ last.op = "check_freshness"
    /\ last.feed = None
    /\ last.probe[1] = "dates_fail"
    /\ last.payload.feeds[1].status = "no_data"
    /\ \E i \in 2..Len(last.payload.feeds) : last.payload.feeds[i].status # "no_data"

\* whether the data file name carries the hour token h as its last segment
EndsInHour(name, h) ==
    /\ Len(h) = 4 /\ IsDigit(h)
    /\ \E ext \in {".parquet", ".jsonl", ".jsonl.gz"} : EndsWith(name, "_" \o h \o ext)

\* the hour tokens of the data files listed in the partition
ListedHours ==
    {h \in {"0900", "1400", "1500", "2300"} :
        \E n \in 1..Len(pure.names) : EndsInHour(pure.names[n], h)}

\* the date-shaped entries of the feed's listing
ListedDates ==
    {c \in {"2025-01-15", "2025-01-14", "2025-02-30", "staging"} :
        /\ \E n \in 1..Len(pure.dirs) : pure.dirs[n] = c \o "/"
        /\ Len(c) = 10 /\ SubSeq(c, 5, 5) = "-" /\ SubSeq(c, 8, 8) = "-"}

\* C31: the partition probed is the greatest date-shaped entry of the feed's
\* listing, and newest_hour is the greatest 4-digit last segment of the names
\* of that partition's data files (.parquet, .jsonl, .jsonl.gz), none where
\* no data file has one
C31_NewestDateAndGreatestHour ==
    (pure.op = "freshness" /\ pure.done) =>
        /\ pure.entry.newest_date \in ListedDates
        /\ \A c \in ListedDates :
              c = pure.entry.newest_date \/ StrLess(c, pure.entry.newest_date)
        /\ ListedHours = {} => pure.entry.newest_hour = None
        /\ ListedHours # {} =>
              /\ pure.entry.newest_hour \in ListedHours
              /\ \A h \in ListedHours :
                    h = pure.entry.newest_hour \/ StrLess(h, pure.entry.newest_hour)

\* C31 witness: the later of two dates is probed, and of its files the one
\* listed first has the greater hour, beside a .csv of a later hour
C31_LaterDateGreaterHour ==
    /\ pure.op = "freshness" /\ pure.done
    /\ pure.dirs = <<"2025-01-14/", "2025-01-15/">>
    /\ pure.entry.newest_date = "2025-01-15"
    /\ pure.names \in {<<"trade_1500.parquet", "ticker_1400.parquet">>,
                        <<"trade_0900.jsonl.gz", "trade_2300.csv">>}
    /\ pure.entry.newest_hour \in {"1500", "0900"}

\* the start of the newest date in seconds from the midnight Today begins
\* with, for the dates that are dates
DayStart == "2025-01-15" :> 0 @@ "2025-01-14" :> (0 - 86400)

\* the seconds from midnight to the newest hour, 0 where there is none
HourStart ==
    IF pure.entry.newest_hour = None THEN 0
    ELSE ToInt(SubSeq(pure.entry.newest_hour, 1, 2)) * 3600

\* C32: for a feed with data, stale is true exactly when the age, the time of
\* the check minus the timestamp formed from the newest date and the newest
\* hour, is known and greater than 7 hours, and status is "stale" exactly when
\* stale is true and "fresh" otherwise
C32_StaleExactlyBeyondSevenHours ==
    (pure.op = "freshness" /\ pure.done) =>
        /\ pure.entry.age_known = (pure.entry.newest_date \in DOMAIN DayStart)
        /\ pure.entry.age_known =>
              pure.entry.age = pure.clock - (DayStart[pure.entry.newest_date] + HourStart)
        /\ pure.entry.stale = (pure.entry.age_known /\ pure.entry.age > 7 * 3600)
        /\ pure.entry.status = IF pure.entry.stale THEN "stale" ELSE "fresh"

\* C32 witness: a file of 09:00 checked at 16:00 the same day is exactly 7
\* hours old, and fresh
C32_ExactlySevenHoursIsFresh ==
    /\ pure.op = "freshness" /\ pure.done
    /\ pure.entry.newest_date = Today
    /\ pure.entry.newest_hour = "0900"
    /\ pure.clock = 16 * 3600
    /\ pure.entry.age = 7 * 3600
    /\ ~pure.entry.stale
    /\ pure.entry.status = "fresh"

\* the fields of a feed's entry: age_hours is age_known and age here
EntryFields ==
    {"feed", "status", "newest_date", "newest_hour", "age_known", "age", "stale",
     "file_count", "parquet_count"}

\* C33 as stated: every entry of the report's feeds, the no_data entries
\* included, carries feed, status, newest date, newest hour, age hours, stale,
\* file count and parquet count, and the report the check time and the stale
\* threshold
C33_AsStated ==
    last.op = "check_freshness" =>
        /\ {"checked_at", "stale_threshold_hours", "feeds"} \subseteq DOMAIN last.payload
        /\ \A i \in 1..Len(last.payload.feeds) :
              EntryFields \subseteq DOMAIN last.payload.feeds[i]

\* C33 for the feeds with data: their entries carry every field
C33_EntriesOfFeedsWithDataAreWhole ==
    last.op = "check_freshness" =>
        /\ {"checked_at", "stale_threshold_hours", "feeds"} \subseteq DOMAIN last.payload
        /\ \A i \in 1..Len(last.payload.feeds) :
              last.payload.feeds[i].status # "no_data" =>
                 EntryFields \subseteq DOMAIN last.payload.feeds[i]

\* the requests that hold a session
Connected == {p \in Requests : reqs[p].conn # 0}

\* C27: every get_connection opens a new engine session no other request uses:
\* no session is handed out twice, none is used by a request other than the
\* one it was opened for, and the credential a request's query sees in its
\* session is the one its own set-up registered, whatever the set-ups of
\* other requests did or failed to do
C27_SessionsAreNotShared ==
    /\ \A p, q \in Connected : p # q => reqs[p].conn # reqs[q].conn
    /\ \A i \in DOMAIN sessions :
          /\ sessions[i].uses = 1
          /\ sessions[i].by \subseteq {sessions[i].owner}
    /\ \A p \in Connected :
          /\ sessions[reqs[p].conn].owner = p
          /\ reqs[p].pc \in {"query", "raised"} =>
                sessions[reqs[p].conn].cred = reqs[p].installed
          /\ reqs[p].pc = "done" => reqs[p].seen = reqs[p].installed

\* C27 witness: one request's set-up ended without a credential while the
\* other's query ran on the bearer token registered in its own session
C27_FailedSetUpBesideTokenSession ==
    \E p, q \in Requests :
        /\ p # q
        /\ reqs[p].pc = "query"
        /\ reqs[p].installed.auth = "none"
        /\ reqs[q].pc = "done"
        /\ reqs[q].seen = [auth |-> "secret", token |-> FreshToken]
        /\ reqs[p].conn # reqs[q].conn

----------------------------------------------------------------------------
(* Properties: the credential cache *)

\* the token cache held a token less than 30 minutes old when the call began
CachedTokenFresh ==
    /\ clast.pre_token # ""
    /\ clast.pre_time # NoTime
    /\ clast.at - clast.pre_time < TokenMaxAge

\* C26: a session set-up tries the ambient chain, then the cached bearer
\* token, then a fresh token from the helper, and ends with no credential; it
\* stops at the first that succeeds: with the ambient chain registered the
\* token cache is not read and the helper not run, and with a cached token
\* less than 30 minutes old the helper is not run
C26_CredentialStrategiesInOrder ==
    (clast.op = "get_connection" /\ ~clast.raised) =>
        /\ clast.chain = "ok" =>
              /\ clast.auth = "chain" /\ clast.success
              /\ ~clast.resolved /\ ~clast.invoked
              /\ gcs_token = clast.pre_token /\ gcs_token_time = clast.pre_time
        /\ (clast.chain = "fail" /\ CachedTokenFresh) =>
              /\ clast.resolved /\ ~clast.invoked
              /\ clast.auth \in {"secret", "headers"} /\ clast.success
              /\ clast.ret = clast.pre_token
        /\ (clast.chain = "fail" /\ ~CachedTokenFresh) =>
              /\ clast.resolved /\ clast.invoked
              /\ clast.helper = "token" =>
                    /\ clast.auth \in {"secret", "headers"} /\ clast.success
                    /\ clast.ret = FreshToken
              /\ clast.helper # "token" => clast.auth = "none" /\ ~clast.success

\* C26 witness: the ambient chain registers while the token cache holds an
\* expired token, and the set-up neither reads the cache nor runs the helper
C26_ChainOverExpiredToken ==
    /\ clast.op = "get_connection"
    /\ clast.chain = "ok"
    /\ clast.auth = "chain"
    /\ clast.pre_token # ""
    /\ clast.at - clast.pre_time >= TokenMaxAge
    /\ ~clast.resolved
    /\ ~clast.invoked

\* C36: a token _get_gcs_token returns is the cached one, acquired from the
\* helper less than 30 minutes before the call; where the cached token is 30
\* minutes old or older and the helper fails, the call returns none
C36_NoExpiredTokenHandedOut ==
    clast.resolved =>
        /\ clast.ret # "" =>
              /\ clast.ret = gcs_token
              /\ fetched # NoTime
              /\ gcs_token_time = fetched
              /\ clast.at - fetched < TokenMaxAge
        /\ (/\ clast.pre_token # ""
            /\ clast.at - clast.pre_time >= TokenMaxAge
            /\ clast.helper # "token") => clast.ret = ""

\* C36 witness: _get_gcs_token finds a token exactly 30 minutes old, runs
\* the helper and returns the token acquired at the time of the call
C36_RefreshedAtThirtyMinutes ==
    /\ clast.op = "get_gcs_token"
    /\ clast.pre_token # ""
    /\ clast.at - clast.pre_time = TokenMaxAge
    /\ clast.invoked
    /\ clast.helper = "token"
    /\ clast.ret = FreshToken
    /\ fetched = clast.at

\* C37: the cached token and its acquisition time are both absent or both
\* present in every state, and a step changes either only by a helper run
\* that exits 0 with output, which stores that token with the time of the run
C37_TokenAndTimeWrittenTogetherByHelperOnly ==
    /\ []((gcs_token = "") <=> (gcs_token_time = NoTime))
    /\ [][(gcs_token' # gcs_token \/ gcs_token_time' # gcs_token_time) =>
             /\ clast'.invoked
             /\ clast'.helper = "token"
             /\ gcs_token' = FreshToken
             /\ gcs_token_time' = now]_vars

\* C37 witness: a resolution served from the cache, the token and its time
\* as they were before the call
C37_CacheHitLeavesCache ==
    /\ clast.op = "get_gcs_token"
    /\ clast.resolved /\ ~clast.invoked
    /\ clast.pre_token # "" /\ clast.pre_time # NoTime
    /\ gcs_token = clast.pre_token
    /\ gcs_token_time = clast.pre_time
    /\ clast.at > clast.pre_time

\* C2: a credential resolution made less than 30 minutes after the last
\* successful helper-based token fetch does not run the helper; one made 30
\* minutes or more after it does
C2_HelperRunsOnlyAfterThirtyMinutes ==
    (clast.resolved /\ clast.pre_fetched # NoTime) =>
        (clast.invoked <=> clast.at - clast.pre_fetched >= TokenMaxAge)

\* C2 witness: a session set-up resolves the credential 30 minutes or more
\* after the last successful fetch, and runs the helper
C2_ResolvedAfterExpiry ==
    /\ clast.op = "get_connection"
    /\ clast.resolved
    /\ clast.pre_fetched # NoTime
    /\ clast.at - clast.pre_fetched >= TokenMaxAge
    /\ clast.invoked

\* C15: when the helper is missing, times out, exits non-zero or prints
\* nothing, the resolution yields no credential (None), does not raise, and
\* leaves the cached token and its time as they were
C15_HelperFailureIsNoCredential ==
    (clast.resolved /\ clast.invoked /\ clast.helper \in HelperOutcomes \ {"token"}) =>
        /\ clast.ret = ""
        /\ ~clast.raised
        /\ gcs_token = clast.pre_token
        /\ gcs_token_time = clast.pre_time

\* C15 witness: _get_gcs_token runs the helper over an expired cached token,
\* the helper times out, and the expired token is still cached
C15_TimeoutOverExpiredToken ==
    /\ clast.op = "get_gcs_token"
    /\ clast.invoked
    /\ clast.helper = "timeout"
    /\ clast.pre_token = FreshToken
    /\ clast.ret = ""
    /\ gcs_token = FreshToken
    /\ gcs_token_time # NoTime

\* C17: in one process at most one helper-based token acquisition is in
\* flight at any time, and every token a resolution returns was acquired less
\* than 30 minutes before
C17_OneAcquisitionInFlight ==
    /\ Cardinality({p \in DOMAIN reqs : reqs[p].pc = "helper"}) <= 1
    /\ \A p \in DOMAIN reqs :
          (reqs[p].pc = "done" /\ reqs[p].ret # "") =>
              /\ reqs[p].acquired # NoTime
              /\ reqs[p].at - reqs[p].acquired < TokenMaxAge

\* C17 witness: a handler refreshes an expired token through the helper
\* while another call, received meanwhile, waits for the event loop
C17_RefreshWhileAnotherCallWaits ==
    /\ reqs # << >>
    /\ reqs[1].pc = "helper"
    /\ reqs[2].pc = "pending"
    /\ gcs_token = FreshToken
    /\ now - gcs_token_time >= TokenMaxAge

----------------------------------------------------------------------------
(* Properties: freshness *)

\* C18: for a feed whose newest partition is today and holds the one object
\* ticker_1400.parquet, checked 2 hours after 14:00 of that day,
\* check_freshness reports stale = false, age_hours 2.0 and newest_hour "1400"
C18_TwoHoursAfterFourteenIsFresh ==
    (/\ pure.op = "freshness" /\ pure.done
     /\ pure.newest_date = Today
     /\ pure.names = <<"ticker_1400.parquet">>
     /\ pure.clock \in {16 * 3600, 16 * 3600 + 120}) =>
        /\ pure.entry.stale = FALSE
        /\ pure.entry.status = "fresh"
        /\ pure.entry.newest_hour = "1400"
        /\ pure.entry.age_known
        /\ pure.age_hours = 20

\* C18 witness: the check of that partition at 16:00 for kraken-futures
C18_CheckedAtSixteen ==
    /\ pure.op = "freshness" /\ pure.done
    /\ pure.feed = "kraken-futures"
    /\ pure.newest_date = Today
    /\ pure.names = <<"ticker_1400.parquet">>
    /\ pure.clock = 16 * 3600
    /\ pure.entry.age = 7200

----------------------------------------------------------------------------
(* Properties: what the templates compute *)

\* whether no two rows of one key bear the same time
DistinctTimes(rows) ==
    \A a, b \in rows : (a.key = b.key /\ a.time = b.time) => a = b

RawPrices(rows, ticker) ==
    {rows[i].price : i \in {j \in DOMAIN rows : rows[j].key = ticker}}

RawCount(rows, ticker) == Cardinality({j \in DOMAIN rows : rows[j].key = ticker})

RECURSIVE RawSum(_, _)
RawSum(rows, ticker) ==
    IF rows = << >> THEN 0
    ELSE (IF Head(rows).key = ticker THEN Head(rows).price ELSE 0)
         + RawSum(Tail(rows), ticker)

\* C20: for kalshi the reported min, max and avg price of a ticker are the
\* min, max and avg of its raw integer prices divided by 100 (100, 150, 200
\* give 1.00, 2.00, 1.50); for the other two feeds they are the min, max and
\* avg of the raw prices themselves
C20_CentsToUnitsForKalshiOnly ==
    (pure.op = "trades" /\ pure.done) =>
        \A i \in DOMAIN pure.out :
            \E unit \in {IF pure.feed = "kalshi" THEN 100 ELSE 1} :
            \E o \in {pure.out[i]} :
                /\ o.min_price.num * unit = o.min_price.den
                        * (CHOOSE x \in RawPrices(pure.rows, o.ticker) :
                               \A y \in RawPrices(pure.rows, o.ticker) : x <= y)
                /\ o.max_price.num * unit = o.max_price.den
                        * (CHOOSE x \in RawPrices(pure.rows, o.ticker) :
                               \A y \in RawPrices(pure.rows, o.ticker) : x >= y)
                /\ o.avg_price.num * unit * RawCount(pure.rows, o.ticker) =
                        o.avg_price.den * RawSum(pure.rows, o.ticker)
                /\ (pure.feed = "kalshi" /\ RawCount(pure.rows, o.ticker) = 3
                        /\ RawPrices(pure.rows, o.ticker) = {100, 150, 200}) =>
                       /\ o.min_price.num = 1 * o.min_price.den
                       /\ o.max_price.num = 2 * o.max_price.den
                       /\ 2 * o.avg_price.num = 3 * o.avg_price.den

\* C20 witness: kalshi trades of one ticker at 100, 150 and 200 cents,
\* aggregated
C20_KalshiHundredToTwoHundred ==
    /\ pure.op = "trades" /\ pure.done
    /\ pure.feed = "kalshi"
    /\ Len(pure.rows) = 3
    /\ \A i \in 1..3 : pure.rows[i].key = "BTC"
    /\ pure.rows[1].price = 100 /\ pure.rows[2].price = 200 /\ pure.rows[3].price = 150
    /\ Len(pure.out) = 1
    /\ pure.out[1].min_price = [num |-> 100, den |-> 100]
    /\ pure.out[1].avg_price = [num |-> 450, den |-> 300]

\* the tickers of the input rows
InputTickers == {pure.rows[i].key : i \in DOMAIN pure.rows}

\* the quantities of the input rows of one ticker, summed
RECURSIVE RawVolume(_, _)
RawVolume(rows, ticker) ==
    IF rows = << >> THEN 0
    ELSE (IF Head(rows).key = ticker THEN Head(rows).qty ELSE 0)
             + RawVolume(Tail(rows), ticker)

\* C34: query_trades' template returns one row per distinct ticker of the
\* input, trade_count the number of input rows of that ticker, the rows in
\* descending order of trade_count and cut at the caller's limit, with
\* total_volume the summed quantity for kalshi and kraken-futures and no
\* total_volume for polymarket
C34_OneRowPerTickerByCountDescending ==
    (pure.op = "trades" /\ pure.done) =>
        /\ Len(pure.out) = IF Cardinality(InputTickers) <= pure.limit
                           THEN Cardinality(InputTickers) ELSE pure.limit
        /\ \A i, j \in DOMAIN pure.out :
              /\ i # j => pure.out[i].ticker # pure.out[j].ticker
              /\ i < j => pure.out[i].trade_count >= pure.out[j].trade_count
        /\ \A i \in DOMAIN pure.out :
              /\ pure.out[i].ticker \in InputTickers
              /\ pure.out[i].trade_count = RawCount(pure.rows, pure.out[i].ticker)
              /\ \A t \in InputTickers :
                    (\A j \in DOMAIN pure.out : pure.out[j].ticker # t) =>
                        RawCount(pure.rows, t) <= pure.out[i].trade_count
              /\ pure.feed = "polymarket" => "total_volume" \notin DOMAIN pure.out[i]
              /\ pure.feed # "polymarket" =>
                    /\ "total_volume" \in DOMAIN pure.out[i]
                    /\ pure.out[i].total_volume = RawVolume(pure.rows, pure.out[i].ticker)

\* C34 witness: two trades of ETH around one of BTC, limit 1: the row is
\* ETH's, with trade_count 2 and the two quantities summed
C34_TwoOfEthOneOfBtcLimitOne ==
    /\ pure.op = "trades" /\ pure.done
    /\ pure.feed = "kraken-futures"
    /\ pure.limit = 1
    /\ Len(pure.rows) = 3
    /\ pure.rows[1].key = "ETH" /\ pure.rows[2].key = "BTC" /\ pure.rows[3].key = "ETH"
    /\ pure.rows[1].qty = 1 /\ pure.rows[3].qty = 2
    /\ Len(pure.out) = 1
    /\ pure.out[1].ticker = "ETH"
    /\ pure.out[1].trade_count = 2
    /\ pure.out[1].total_volume = 3

\* the local paths the call may download to
DownloadTargets ==
    IF pure.hour = None
    THEN {DispatchPlan.locals[i] : i \in 1..Len(DispatchPlan.matching)}
    ELSE {DispatchPlan.local}

\* C35: a call of the dispatcher makes one direct execution and, only if that
\* fails with a caught error, at most one listing, at most one download
\* attempt per matching object and at most one local execution: nothing is
\* attempted twice and nothing is attempted after a direct execution that
\* passed or raised
C35_NothingIsRetried ==
    pure.op = "dispatch" =>
        /\ pure.r.ls \in {0, 1}
        /\ pure.r.second \in BOOLEAN
        /\ \A i, j \in DOMAIN pure.r.tried : i # j => pure.r.tried[i] # pure.r.tried[j]
        /\ \A i \in DOMAIN pure.r.tried : pure.r.tried[i] \in DownloadTargets
        /\ Len(pure.r.tried) <= Cardinality(DownloadTargets)
        /\ ~pure.r.fallback =>
              pure.r.ls = 0 /\ pure.r.tried = << >> /\ ~pure.r.second
        /\ pure.hour # None => pure.r.ls = 0
        /\ pure.r.raised => (~pure.r.fallback \/ pure.r.second)

\* C35 witness: a glob fallback that lists once, attempts two downloads of
\* which one fails, and executes once on what it has
C35_OneFailedDownloadNotRepeated ==
    /\ pure.op = "dispatch"
    /\ pure.hour = None
    /\ pure.r.ls = 1
    /\ Len(pure.r.tried) = 2
    /\ Cardinality(pure.e.failing) = 1
    /\ pure.r.second
    /\ Len(pure.r.paths) = 1

\* C39: for every configured file type of every feed and every listing of
\* the partition, the objects the glob fallback keeps are the objects of the
\* listing that the remote glob of the direct query matches
C39_FallbackKeepsWhatTheGlobMatches ==
    (pure.op = "match" /\ pure.done) =>
        {pure.kept[i] : i \in 1..Len(pure.kept)} = pure.globbed

\* C39 witness: of trade_.parquet and xtrade_1400.parquet listed for kalshi,
\* the filter for trade keeps the first alone, as the glob does
C39_EmptyHourKeptForeignPrefixDropped ==
    /\ pure.op = "match" /\ pure.done
    /\ pure.feed = "kalshi" /\ pure.file_type = "trade"
    /\ pure.names = <<"trade_.parquet", "xtrade_1400.parquet">>
    /\ Len(pure.kept) = 1
    /\ LastSegment(pure.kept[1]) = "trade_.parquet"
    /\ pure.globbed = {pure.kept[1]}

\* C40: for every (feed, date, file type, hour) the hour branch downloads
\* the remote object to the cache filename that the glob branch downloads it
\* to, /tmp/ssmd_<feed>_<date>_<fileType>_<hour>.parquet, and a different
\* (feed, date, basename) has a different cache filename
C40_BranchesShareCacheNamesAndNamesAreDistinct ==
    (pure.op = "names" /\ pure.done) =>
        /\ pure.hourly \in pure.glob
        /\ pure.hourly[2] = "/tmp/ssmd_" \o pure.feed \o "_" \o pure.date_str \o "_"
                                \o pure.file_type \o "_" \o pure.hour \o ".parquet"
        /\ pure.hourly[1] = "gs://" \o SubSeq(gcs_parquet_path(pure.feed, pure.date_str,
                                                                pure.file_type, pure.hour),
                                               6, Len(gcs_parquet_path(pure.feed,
                                                    pure.date_str, pure.file_type,
                                                    pure.hour)))
        /\ (<<pure.feed, pure.date_str, pure.fname>>
                # <<pure.feed2, pure.date2, pure.base2>>
             => pure.other # pure.hourly[2])

\* C40 witness: kalshi's trade_1400.parquet of two dates, both listed for the
\* glob branch beside trade_1500.parquet: one name from both branches, another
\* name for the other date
C40_SameObjectOfAnotherDate ==
    /\ pure.op = "names" /\ pure.done
    /\ pure.feed = "kalshi" /\ pure.feed2 = "kalshi"
    /\ pure.file_type = "trade" /\ pure.hour = "1400"
    /\ pure.date_str = Today /\ pure.date2 = "2024-12-31"
    /\ pure.base2 = "trade_1400.parquet"
    /\ pure.hourly \in pure.glob
    /\ pure.hourly[2] = "/tmp/ssmd_kalshi_2025-01-15_trade_1400.parquet"
    /\ pure.other = "/tmp/ssmd_kalshi_2024-12-31_trade_1400.parquet"

----------------------------------------------------------------------------
(* Properties: the public query operations *)

\* C38 as stated: every engine session query_trades, query_prices or
\* query_raw opened is closed when the operation returns or raises
C38_AsStated ==
    (last.op \in {"query_trades", "query_prices", "query_raw"}
        /\ last.io.sessions > 0) => last.closed

\* C38 where the operation returns: the session it opened is closed
C38_ClosedWhereTheOperationReturns ==
    (last.op \in {"query_trades", "query_prices", "query_raw"}
        /\ last.io.sessions > 0 /\ last.outcome = "returned") => last.closed

\* C3 as stated: a feed-aware query function called with a feed outside the
\* configured set returns a structured error naming the valid feeds and
\* performs no I/O (no session, helper, listing or download)
C3_AsStated ==
    (/\ last.op \in {"query_trades", "query_prices", "query_raw", "check_freshness"}
     /\ last.feed \notin KnownFeeds \cup {None}) =>
        /\ last.outcome = "returned"
        /\ last.payload.kind = "error"
        /\ "valid" \in DOMAIN last.payload
        /\ last.payload.valid = FeedKeys
        /\ last.io = NoIo

\* C4 as stated: no public operation ever raises to its caller
C4_AsStated == last.outcome # "raised"

\* C5 as stated: query_raw never raises, whatever step fails, and an error it
\* returns carries the expanded SQL text
C5_AsStated ==
    last.op = "query_raw" =>
        /\ last.outcome = "returned"
        /\ last.payload.kind = "error" => "sql" \in DOMAIN last.payload

\* C6 as stated: with an empty API URL every feed-query function returns a
\* "not configured" error payload without any I/O
C6_AsStated ==
    (/\ api_url = ""
     /\ \/ last.op = "list_feeds"
        \/ last.op \in {"query_trades", "query_prices"} /\ last.feed \in KnownFeeds) =>
        /\ last.outcome = "returned"
        /\ last.payload.kind = "error"
        /\ Contains(last.payload.error, "not configured")
        /\ last.io = NoIo

\* C7 as stated: with an API URL configured query_trades and query_prices
\* answer from one HTTP request and bypass the local query layer (no session,
\* no listing, no download)
C7_AsStated ==
    (/\ api_url # ""
     /\ last.op \in {"query_trades", "query_prices"}
     /\ last.feed \in KnownFeeds) =>
        /\ last.outcome = "returned"
        /\ last.io.http = 1
        /\ last.io.sessions = 0
        /\ last.io.ls = 0
        /\ last.io.dl = 0

----------------------------------------------------------------------------
(* Properties: the REST client *)

\* C8: with an empty api_url, api_get, api_post, get_catalog and
\* lookup_markets return an error payload that says "not configured" and send
\* no HTTP request; lookup_market wraps it as count = 1 with the error as its
\* only market; the market cache stays as it was
C8_NotConfiguredWithoutRequest ==
    (api_url = "" /\ apilast.op # "none") =>
        /\ ~apilast.raised
        /\ apilast.http = 0
        /\ market_cache = << >>
        /\ IF apilast.op = "lookup_market"
           THEN /\ apilast.payload.count = 1
                /\ "error" \in DOMAIN apilast.payload.markets[1]
                /\ Contains(apilast.payload.markets[1].error, "not configured")
           ELSE /\ "error" \in DOMAIN apilast.payload
                /\ Contains(apilast.payload.error, "not configured")

\* C8 witness: lookup_market was called with an empty api_url
C8_LookupNotConfigured ==
    /\ api_url = ""
    /\ apilast.op = "lookup_market"
    /\ apilast.payload = [count |-> 1, markets |-> <<NotConfigured>>]

\* C9: when the request fails at HTTP level (status 404 or 500, connection
\* refused, read timeout), api_get, api_post, get_catalog and lookup_markets
\* return a payload with an "error" field and do not raise
C9_HttpFailureIsAnErrorPayload ==
    apilast.drawn \in {"404", "500", "refused", "timeout"} =>
        /\ ~apilast.raised
        /\ IF apilast.op = "lookup_market"
           THEN \E n \in 1..Len(apilast.payload.markets) :
                   "error" \in DOMAIN apilast.payload.markets[n]
           ELSE "error" \in DOMAIN apilast.payload

\* C9 witness: a market lookup whose request is refused returns the error
C9_LookupRefused ==
    /\ apilast.op = "lookup_market"
    /\ apilast.drawn = "refused"
    /\ ~apilast.raised
    /\ apilast.payload.count >= 1

\* C21: get_fees called with a series that is not purely alphanumeric returns
\* the error "Invalid series format" and sends no HTTP request
C21_InvalidSeriesRefusedWithoutRequest ==
    (apilast.op = "get_fees" /\ apilast.series # None
        /\ \E i \in 1..Len(apilast.series) :
              ~Contains("ABCDEFGHIJKLMNOPQRSTUVWXYZabcdefghijklmnopqrstuvwxyz0123456789",
                        SubSeq(apilast.series, i, i))) =>
        /\ ~apilast.raised
        /\ apilast.payload = [error |-> "Invalid series format"]
        /\ apilast.http = 0

\* C21 witness: get_fees called with the series 'DROP TABLE; --' on a
\* configured API
C21_DropTableRefused ==
    /\ api_url # ""
    /\ apilast.op = "get_fees"
    /\ apilast.series = "DROP TABLE; --"
    /\ apilast.payload = InvalidSeries

\* C10 as stated: once the API has answered a lookup of an id under a feed
\* filter, a later lookup of that id under that filter sends no HTTP request
\* and returns that record, with count 1
C10_AsStated ==
    (apilast.op = "lookup_market" /\ apilast.known /\ Len(apilast.ids) = 1) =>
        /\ ~apilast.raised
        /\ apilast.http = 0
        /\ apilast.payload.count = 1
        /\ apilast.payload.markets[1] = apilast.prior[1]

----------------------------------------------------------------------------
(* Properties: the path builder *)

\* the number of glob characters in a path
CountStar(s) == Cardinality({i \in 1..Len(s) : SubSeq(s, i, i) = "*"})

\* the partition directory of the last path built
PureDir ==
    "s3://" \o gcs_bucket \o "/" \o feed_paths_get(pure.feed) \o "/" \o pure.date_str \o "/"

\* a partition directory of another date
OtherDir ==
    "s3://" \o gcs_bucket \o "/" \o feed_paths_get(pure.feed) \o "/" \o "2024-12-30" \o "/"

\* object names a partition may hold: data files of every type and hour, and
\* names that are no hourly parquet file of a type
ObjectNames ==
    {ft \o "_" \o h \o ".parquet" : ft \in FileTypes, h \in {"0000", "1400"}}
    \cup {ft \o ".parquet" : ft \in FileTypes}
    \cup {ft \o "_1400.jsonl" : ft \in FileTypes}
    \cup {"sub/" \o ft \o "_1400.parquet" : ft \in FileTypes}
    \cup {ft \o "_sub/1400.parquet" : ft \in FileTypes}

\* C11: with an hour, gcs_parquet_path returns
\* s3://<bucket>/<prefix(feed)>/<date>/<fileType>_<hour>.parquet, which holds
\* the literal hour token and no glob character; without an hour it returns the
\* same path with a single "*" in place of the hour, a glob that stays within
\* the partition directory, covers the exact path of every hour, and selects
\* the hourly parquet files of that file type only
C11_ExactPathOrSingleSegmentGlob ==
    pure.op = "gcs_parquet_path" =>
        /\ StartsWith(pure.out, PureDir)
        /\ ~Contains(Tail_(pure.out, Len(PureDir)), "/")
        /\ pure.hour # None =>
              /\ Tail_(pure.out, Len(PureDir)) =
                    pure.file_type \o "_" \o pure.hour \o ".parquet"
              /\ CountStar(pure.out) = 0
        /\ pure.hour = None =>
              /\ Tail_(pure.out, Len(PureDir)) = pure.file_type \o "_*.parquet"
              /\ CountStar(pure.out) = 1
              /\ \A h \in PathHours \ {None} :
                    GlobMatch(gcs_parquet_path(pure.feed, pure.date_str,
                                               pure.file_type, h), pure.out)
              /\ \A name \in ObjectNames :
                    /\ GlobMatch(PureDir \o name, pure.out) <=>
                          /\ StartsWith(name, pure.file_type \o "_")
                          /\ EndsWith(name, ".parquet")
                          /\ ~Contains(name, "/")
                    /\ ~GlobMatch(OtherDir \o name, pure.out)

\* C11 witness: the glob path of kalshi tickers of a day
C11_KalshiTickerGlob ==
    /\ pure.op = "gcs_parquet_path"
    /\ pure.hour = None
    /\ pure.out = "s3://ssmd-data/kalshi/kalshi/crypto/2025-01-15/ticker_*.parquet"

\* C12: for a feed that is not in the prefix table both path builders use the
\* feed name itself as the prefix; gcs_gs_path returns gs://<bucket>/<prefix>/
\* when no date is given and gs://<bucket>/<prefix>/<date>/ when one is
C12_UnknownFeedIsItsOwnPrefix ==
    /\ (pure.op = "gcs_parquet_path" /\ pure.feed \notin KnownFeeds) =>
          StartsWith(pure.out, "s3://" \o gcs_bucket \o "/" \o pure.feed \o "/"
                                   \o pure.date_str \o "/")
    /\ (pure.op = "gcs_gs_path" /\ pure.feed \notin KnownFeeds) =>
          StartsWith(pure.out, "gs://" \o gcs_bucket \o "/" \o pure.feed \o "/")
    /\ pure.op = "gcs_gs_path" =>
          /\ EndsWith(pure.out, "/")
          /\ pure.date_str = None =>
                pure.out = "gs://" \o gcs_bucket \o "/" \o feed_paths_get(pure.feed) \o "/"
          /\ pure.date_str # None =>
                /\ LastSegment(pure.out) = pure.date_str
                /\ Left(pure.out, Len(pure.out) - Len(pure.date_str) - 1) =
                      "gs://" \o gcs_bucket \o "/" \o feed_paths_get(pure.feed) \o "/"

\* C12 witness: the listing path of a feed outside the table, without a date
C12_BogusListingPath ==
    /\ pure.op = "gcs_gs_path"
    /\ pure.feed = "bogus"
    /\ pure.date_str = None
    /\ pure.out = "gs://ssmd-data/bogus/"


----------------------------------------------------------------------------
(* The freeform query's text *)

\* whether a piece of the given kind is among the pieces
HasKind(pieces, kind) == \E i \in 1..Len(pieces) : pieces[i].kind = kind

\* the text the pieces spell once every macro piece is replaced by the
\* directory of its feed and date
RECURSIVE JoinExpanded(_, _)
JoinExpanded(pieces, date_str) ==
    IF pieces = << >> THEN ""
    ELSE (IF Head(pieces).kind = "macro"
          THEN "s3://" \o gcs_bucket \o "/" \o feed_paths_get(Head(pieces).feed) \o "/"
                   \o (IF Head(pieces).date # None THEN Head(pieces).date ELSE date_str)
                   \o "/"
          ELSE Head(pieces).text)
         \o JoinExpanded(Tail(pieces), date_str)

\* C13 as stated: the SQL query_raw executes carries a row-limit clause: an
\* expanded SQL without an explicit limit clause gains exactly one trailing
\* "LIMIT 1000", and one with an explicit limit clause is executed unchanged
C13_AsStated ==
    (pure.op = "sql" /\ pure.done) =>
        IF HasKind(pure.pieces, "limit")
        THEN pure.executed = pure.expanded
        ELSE /\ EndsWith(pure.executed, RowCap)
             /\ StartsWith(pure.executed, RStripChars(pure.expanded, "; \n"))
             /\ Len(pure.executed) = Len(RStripChars(pure.expanded, "; \n")) + Len(RowCap)

\* C14: every macro occurrence naming a known feed is replaced by
\* s3://<bucket>/<prefix(feed)>/<date>/ with the macro's date, or the call's
\* date (today when the call gives none) where the macro has no date, and the
\* text outside the macro occurrences is unchanged
C14_MacrosExpandToFeedDirectories ==
    (pure.op = "sql" /\ pure.done) =>
        pure.expanded =
            JoinExpanded(pure.pieces, IF pure.date_in # None THEN pure.date_in ELSE Today)

\* C14 witness: a text with both macros and plain text between them, expanded
\* under the date of the call
C14_TwoMacrosExpanded ==
    /\ pure.op = "sql" /\ pure.done
    /\ pure.date_in = "2025-01-14"
    /\ Len(pure.pieces) = 3
    /\ pure.pieces[1].feed = "kraken-futures"
    /\ pure.pieces[2].kind = "text"
    /\ pure.pieces[3].feed = "kalshi"
    /\ StartsWith(pure.expanded, "s3://ssmd-data/" \o feed_paths_get("kraken-futures")
                                     \o "/2025-01-14/")
    /\ ~Contains(pure.expanded, "$FEED_PATH(k")

----------------------------------------------------------------------------
(* Properties: requests that share the cache directory *)

\* C16 as stated: when requests run the fallback for the same object with
\* their check-then-download steps interleaved, every request returns the
\* rows of the complete object: none reads a missing or partly written cache
\* file, none fails because of another request
C16_AsStated ==
    \A p \in DOMAIN reqs : reqs[p].pc = "done" => reqs[p].ret = "rows"
====
